---- MODULE Spec2Model ----
(***************************************************************************)
(* A model of the BigDecimal library (src/src/bigdecimal.ts and            *)
(* src/src/bimath.ts): binary fixed/floating-point numbers stored as a     *)
(* bigint mantissa and a divex (scale), value = bigint / 2^divex.          *)
(*                                                                         *)
(* The program state is the set of BigDecimal objects the caller holds     *)
(* (heap: objects are passed by reference, so an in-place rescale is       *)
(* visible through every reference), the process-wide default precision,   *)
(* and the record of the last API call (its arguments as they were when    *)
(* the call was made, and what it returned or threw).                      *)
(***************************************************************************)
EXTENDS Integers, Sequences, FiniteSets, TLC

VARIABLES heap, kept, DEFAULT_WORKING_PRECISION, bimath, call

vars == <<heap, kept, DEFAULT_WORKING_PRECISION, bimath, call>>

\* ------------------------------------------------------------------ bounds

\* Mantissas of the BigDecimals the caller starts with: -MaxMantissa..MaxMantissa.
MaxMantissa == 4
\* Their scales: -MaxNegDivex..MaxDivex.
MaxDivex == 2
MaxNegDivex == 1
\* Explicit precision arguments (workingPrecision, precision): 0..MaxPrecision.
MaxPrecision == 2
\* Explicit mantissaBits arguments: 1..MaxMantissaBits.
MaxMantissaBits == 3
\* A session of calls starts from one object, with a mantissa in
\* -SessionMaxMantissa..SessionMaxMantissa and a scale in 0..SessionMaxDivex,
\* and passes precisions in 0..SessionMaxDivex.
SessionMaxMantissa == 1
SessionMaxDivex == 1
\* The numbers (doubles) given to FromNumber: biased exponents within
\* MaxExponentOffset of the bias 1023 (and the extreme ones), mantissas with
\* any of their top MaxMantissaTopBits bits set (and the extreme ones).
MaxExponentOffset == 2
MaxMantissaTopBits == 2
\* Scales of the BigDecimals converted to strings: -MaxNegDivex..MaxStringDivex.
MaxStringDivex == 4
\* Their mantissas: -MaxStringMantissa..MaxStringMantissa.
MaxStringMantissa == 40
\* Mantissas of the BigDecimals whose square root is taken: -1..MaxSqrtMantissa.
MaxSqrtMantissa == 16
\* Integer arguments of exp: -MaxExpArgument..MaxExpArgument.
MaxExpArgument == 10
MaxChunk == 3

MantissaRange == (0 - MaxMantissa)..MaxMantissa
DivexRange == (0 - MaxNegDivex)..MaxDivex
PrecisionRange == 0..MaxPrecision
MantissaBitsRange == 1..MaxMantissaBits

\* --------------------------------------------------------------- constants

ZERO == 0
ONE == 1
FIVE == 5
MAX_ITERATIONS == 100
INITIAL_WORKING_PRECISION == 23
DEFAULT_MANTISSA_PRECISION_BITS == 23
\* The maximum scale of the specification, and of the library's earlier version.
MAX_DIVEX == 100000
\* powersOfTwoList holds 2^0 .. 2^1023, the powers of two below Number.MAX_VALUE.
MAX_DIVEX_BEFORE_INFINITY == 1023

\* ------------------------------------------------- bigint operators (JS)

\* x << n on bigints: a negative count shifts right, rounding toward -infinity.
ShiftLeft(x, n) == IF n >= 0 THEN x * (2 ^ n) ELSE x \div (2 ^ (0 - n))

\* x >> n on bigints: the arithmetic (sign-propagating) shift, floor(x / 2^n).
ShiftRight(x, n) == ShiftLeft(x, 0 - n)

\* bimath.abs
bimath_abs(bigint) == IF bigint < ZERO THEN 0 - bigint ELSE bigint

\* x / y on bigints (y # 0): the quotient truncated toward zero.
BigIntDiv(x, y) ==
    LET q == bimath_abs(x) \div bimath_abs(y)
    IN IF (x < 0) = (y < 0) THEN q ELSE 0 - q

\* x % y on bigints (y # 0): the remainder, with the sign of the dividend.
BigIntRem(x, y) == x - y * BigIntDiv(x, y)

\* ------------------------------------------------------- values and results

BD(bigint, divex) == [bigint |-> bigint, divex |-> divex]

\* What a call returns (status "ok") or the error it throws.
Ok(value) == [status |-> "ok", value |-> value]
Throw(kind) == [status |-> kind, value |-> "none"]
\* No call made, or no result yet.
NoResult == [status |-> "none", value |-> "none"]

\* ------------------------------------------------------------- bimath.ts

\* Math.clz32(n) for 0 <= n < 2^32: the leading zero bits of the 32-bit word.
RECURSIVE WordBits(_)
WordBits(n) == IF n = 0 THEN 0 ELSE 1 + WordBits(n \div 2)

clz32(n) == 32 - WordBits(n)

\* bimath.bitLength_bisection. Every bigint of this model is below the first
\* tester 2^32, so the scan over the testers stops at k = 0 and the result is
\* 32 - clz32(Number(x)).
bitLength_bisection(x) ==
    IF x = ZERO THEN 0
    ELSE LET ax == IF x < ZERO THEN 0 - x ELSE x
         IN 32 - clz32(ax)

\* ------------------------------------- bigints beyond the model's integers
\*
\* FromNumber works on the 53-bit significand of a double and shifts it by up
\* to 1074 bits. Such a bigint is held as its sign and its magnitude in digits
\* of LimbBits bits, least significant digit first, without leading zero
\* digits (zero: no digits, neg = FALSE); the operators below are the bigint
\* operators of the language on that form.

LimbBits == 15
LimbBase == 2 ^ LimbBits

SetMax(S) == CHOOSE m \in S : \A x \in S : x <= m

\* The digit i of the magnitude m, zero beyond its digits.
Limb(m, i) == IF i >= 1 /\ i <= Len(m) THEN m[i] ELSE 0

MagTrim(m) ==
    LET nz == {i \in 1..Len(m) : m[i] # 0}
    IN IF nz = {} THEN << >> ELSE SubSeq(m, 1, SetMax(nz))

\* m * 2^n
MagShiftLeft(m, n) ==
    LET q == n \div LimbBits
        r == n % LimbBits
    IN MagTrim([i \in 1..(Len(m) + q + 1) |->
                  ((Limb(m, i - q) * (2 ^ r)) % LimbBase)
                  + ((Limb(m, i - q - 1) * (2 ^ r)) \div LimbBase)])

\* floor(m / 2^n)
MagShiftRight(m, n) ==
    LET q == n \div LimbBits
        r == n % LimbBits
    IN IF q >= Len(m) THEN << >>
       ELSE MagTrim([i \in 1..(Len(m) - q) |->
                       (Limb(m, i + q) \div (2 ^ r))
                       + ((Limb(m, i + q + 1) % (2 ^ r)) * (2 ^ (LimbBits - r)))])

\* Whether the low n bits of m are all zero.
MagLowBitsZero(m, n) == MagShiftLeft(MagShiftRight(m, n), n) = m

\* The digits lo..hi of a + b + carry and the carry out of them. The low half
\* is added first and its carry decides the high half, so the depth of the
\* evaluation is the logarithm of the number of digits.
RECURSIVE MagAddRange(_, _, _, _, _)
MagAddRange(a, b, lo, hi, carry) ==
    IF lo = hi
    THEN LET s == Limb(a, lo) + Limb(b, lo) + carry
         IN [digits |-> <<s % LimbBase>>, carry |-> s \div LimbBase]
    ELSE LET mid == (lo + hi) \div 2
             low == MagAddRange(a, b, lo, mid, carry)
         IN IF low.carry = 0
            THEN LET high == MagAddRange(a, b, mid + 1, hi, 0)
                 IN [digits |-> low.digits \o high.digits, carry |-> high.carry]
            ELSE LET high == MagAddRange(a, b, mid + 1, hi, 1)
                 IN [digits |-> low.digits \o high.digits, carry |-> high.carry]

MagAdd(a, b) ==
    LET n == IF Len(a) >= Len(b) THEN Len(a) ELSE Len(b)
    IN IF n = 0 THEN << >>
       ELSE LET sum == MagAddRange(a, b, 1, n, 0)
            IN IF sum.carry = 0 THEN sum.digits ELSE Append(sum.digits, sum.carry)

\* The digits lo..hi of a - b - borrow and the borrow out of them.
RECURSIVE MagSubRange(_, _, _, _, _)
MagSubRange(a, b, lo, hi, borrow) ==
    IF lo = hi
    THEN LET s == Limb(a, lo) - Limb(b, lo) - borrow
         IN [digits |-> <<s % LimbBase>>, borrow |-> IF s < 0 THEN 1 ELSE 0]
    ELSE LET mid == (lo + hi) \div 2
             low == MagSubRange(a, b, lo, mid, borrow)
         IN IF low.borrow = 0
            THEN LET high == MagSubRange(a, b, mid + 1, hi, 0)
                 IN [digits |-> low.digits \o high.digits, borrow |-> high.borrow]
            ELSE LET high == MagSubRange(a, b, mid + 1, hi, 1)
                 IN [digits |-> low.digits \o high.digits, borrow |-> high.borrow]

\* a - b for a >= b
MagSub(a, b) ==
    IF Len(a) = 0 THEN << >> ELSE MagTrim(MagSubRange(a, b, 1, Len(a), 0).digits)

\* The sign of a - b.
MagCompare(a, b) ==
    IF Len(a) # Len(b) THEN (IF Len(a) < Len(b) THEN 0 - 1 ELSE 1)
    ELSE LET D == {i \in 1..Len(a) : a[i] # b[i]}
         IN IF D = {} THEN 0
            ELSE IF a[SetMax(D)] < b[SetMax(D)] THEN 0 - 1 ELSE 1

Big(neg, mag) == [neg |-> neg /\ mag # << >>, mag |-> mag]

RECURSIVE MagFromNat(_)
MagFromNat(n) == IF n = 0 THEN << >> ELSE <<n % LimbBase>> \o MagFromNat(n \div LimbBase)

\* The bigint of an integer of the model, and back (when it is one).
BigFromInt(n) == Big(n < 0, MagFromNat(IF n < 0 THEN 0 - n ELSE n))

RECURSIVE MagToNat(_)
MagToNat(m) == IF m = << >> THEN 0 ELSE Head(m) + (LimbBase * MagToNat(Tail(m)))

BigToInt(x) == IF x.neg THEN 0 - MagToNat(x.mag) ELSE MagToNat(x.mag)

\* -x
BigNegate(x) == Big(~x.neg, x.mag)

\* x + y
BigAdd(x, y) ==
    IF x.neg = y.neg THEN Big(x.neg, MagAdd(x.mag, y.mag))
    ELSE IF MagCompare(x.mag, y.mag) >= 0 THEN Big(x.neg, MagSub(x.mag, y.mag))
    ELSE Big(y.neg, MagSub(y.mag, x.mag))

\* x << n and x >> n, for n >= 0; the right shift rounds toward -infinity.
BigShiftLeft(x, n) == Big(x.neg, MagShiftLeft(x.mag, n))

BigShiftRight(x, n) ==
    IF x.neg /\ ~MagLowBitsZero(x.mag, n)
    THEN Big(TRUE, MagAdd(MagShiftRight(x.mag, n), <<1>>))
    ELSE Big(x.neg, MagShiftRight(x.mag, n))

\* x | y on digits u, v < LimbBase, bit by bit.
RECURSIVE LimbOr(_, _)
LimbOr(u, v) ==
    IF u = 0 THEN v ELSE IF v = 0 THEN u
    ELSE (IF u % 2 = 1 \/ v % 2 = 1 THEN 1 ELSE 0) + (2 * LimbOr(u \div 2, v \div 2))

\* x | y for x, y >= 0
BigOr(x, y) ==
    LET n == IF Len(x.mag) >= Len(y.mag) THEN Len(x.mag) ELSE Len(y.mag)
    IN Big(FALSE, MagTrim([i \in 1..n |-> LimbOr(Limb(x.mag, i), Limb(y.mag, i))]))

\* The sign of x - y.
BigCompare(x, y) ==
    IF x.neg # y.neg THEN (IF x.neg THEN 0 - 1 ELSE 1)
    ELSE IF x.neg THEN MagCompare(y.mag, x.mag) ELSE MagCompare(x.mag, y.mag)

\* The bit length of |x|.
BigBitLength(x) ==
    IF x.mag = << >> THEN 0
    ELSE LimbBits * (Len(x.mag) - 1) + WordBits(x.mag[Len(x.mag)])

\* The bit i (from 0) of the magnitude m.
MagBit(m, i) == (Limb(m, (i \div LimbBits) + 1) \div (2 ^ (i % LimbBits))) % 2

\* The digit k of a * b before carries: the low parts of the digit products
\* a[i] * b[j] with i + j - 1 = k and the high parts of those one digit below.
RECURSIVE MagMulColumn(_, _, _, _)
MagMulColumn(a, b, k, i) ==
    IF i > Len(a) THEN 0
    ELSE ((a[i] * Limb(b, k - i + 1)) % LimbBase)
         + ((a[i] * Limb(b, k - i)) \div LimbBase)
         + MagMulColumn(a, b, k, i + 1)

\* a * b
MagMul(a, b) ==
    IF Len(a) = 0 \/ Len(b) = 0 THEN << >>
    ELSE LET n == Len(a) + Len(b)
             columns == [k \in 1..n |-> MagMulColumn(a, b, k, 1)]
         IN MagAdd(MagTrim([k \in 1..n |-> columns[k] % LimbBase]),
                   MagTrim([k \in 1..(n + 1) |->
                              IF k = 1 THEN 0 ELSE columns[k - 1] \div LimbBase]))

\* Long division of a by b > 0 over the bits hi..lo of a, most significant
\* first, rem being what the bits above hi left over: the quotient bits and
\* the remainder. The upper half is divided first, then the lower half.
RECURSIVE MagDivRange(_, _, _, _, _)
MagDivRange(a, b, hi, lo, rem) ==
    IF hi = lo
    THEN LET r == MagAdd(MagShiftLeft(rem, 1), IF MagBit(a, hi) = 1 THEN <<1>> ELSE << >>)
         IN IF MagCompare(r, b) >= 0
            THEN [q |-> <<1>>, rem |-> MagSub(r, b)]
            ELSE [q |-> << >>, rem |-> r]
    ELSE LET mid == (hi + lo + 1) \div 2
             upper == MagDivRange(a, b, hi, mid, rem)
             lower == MagDivRange(a, b, mid - 1, lo, upper.rem)
         IN IF upper.q = << >> THEN lower
            ELSE [q |-> MagAdd(MagShiftLeft(upper.q, mid - lo), lower.q),
                  rem |-> lower.rem]

\* floor(a / b) for b > 0
MagDiv(a, b) ==
    IF MagCompare(a, b) < 0 THEN << >>
    ELSE MagDivRange(a, b, (LimbBits * (Len(a) - 1)) + WordBits(a[Len(a)]) - 1, 0, << >>).q

\* x * y and x / y (toward zero, y # 0)
BigMul(x, y) == Big(x.neg # y.neg, MagMul(x.mag, y.mag))

BigDiv(x, y) == Big(x.neg # y.neg, MagDiv(x.mag, y.mag))

\* x << n for any n: a negative count shifts right.
BigShift(x, n) == IF n >= 0 THEN BigShiftLeft(x, n) ELSE BigShiftRight(x, 0 - n)

\* ------------------------------------------------------------ constructors

FromBigInt(num, precision) ==
    IF precision < 0 THEN Throw("InvalidPrecision")
    ELSE Ok(BD(ShiftLeft(num, precision), precision))

\* A number (double) by the fields of its 64 bits: the sign bit, the 11 bits
\* of the biased exponent and the 52 bits of the mantissa (a bigint).
Double(sign, exponent, mantissa) ==
    [sign |-> sign, exponent |-> exponent, mantissa |-> mantissa]

\* isFinite(num): NaN and the infinities have all exponent bits set.
isFinite(num) == num.exponent # 2047

\* num === 0, for +0 and -0
IsZeroNumber(num) == num.exponent = 0 /\ num.mantissa.mag = << >>

\* A faulty variant of fromNumberBits: a subnormal number is read with the
\* exponent of the formula for normal numbers (1023 - 0 + 52).
fromNumberBits_subnormalAsNormal(num) ==
    LET mantissa == num.mantissa
        significand == IF num.exponent = 0 THEN mantissa
                       ELSE BigOr(BigShiftLeft(BigFromInt(ONE), 52), mantissa)
    IN BD(IF num.sign = 1 THEN BigNegate(significand) ELSE significand,
          1023 - num.exponent + 52)

fromNumberBits(num) ==
    LET mantissa == num.mantissa
    IN IF num.exponent = 0
       THEN BD(IF num.sign = 1 THEN BigNegate(mantissa) ELSE mantissa, 1022 + 52)
       ELSE LET significand == BigOr(BigShiftLeft(BigFromInt(ONE), 52), mantissa)
            IN BD(IF num.sign = 1 THEN BigNegate(significand) ELSE significand,
                  1023 - num.exponent + 52)

\* setExponent on a bigint beyond the model's integers.
BigSetExponent(bd, divex) ==
    LET difference == bd.divex - divex
    IN IF difference = 0 THEN bd
       ELSE IF difference < 0
       THEN BD(BigShiftLeft(bd.bigint, 0 - difference), divex)
       ELSE LET half == BigShiftLeft(BigFromInt(ONE), difference - 1)
            IN BD(BigShiftRight(BigAdd(bd.bigint, half), difference), divex)

FromNumber(num, precision) ==
    IF precision < 0 THEN Throw("InvalidPrecision")
    ELSE IF ~isFinite(num) THEN Throw("NonFinite")
    ELSE IF IsZeroNumber(num) THEN Ok(BD(BigFromInt(ZERO), precision))
    ELSE Ok(BigSetExponent(fromNumberBits(num), precision))


\* -------------------------------------------------------------- arithmetic

\* A faulty variant of add: the sum is returned at the finer of the two scales.
add_finerScale(bd1, bd2) ==
    IF bd1.divex >= bd2.divex
    THEN Ok(BD(bd1.bigint + ShiftLeft(bd2.bigint, bd1.divex - bd2.divex), bd1.divex))
    ELSE Ok(BD(ShiftLeft(bd1.bigint, bd2.divex - bd1.divex) + bd2.bigint, bd2.divex))

\* A faulty variant of add: bd2 is truncated to bd1's scale (the half is not added).
add_truncates(bd1, bd2) ==
    IF bd1.divex >= bd2.divex
    THEN Ok(BD(bd1.bigint + ShiftLeft(bd2.bigint, bd1.divex - bd2.divex), bd1.divex))
    ELSE Ok(BD(bd1.bigint + ShiftRight(bd2.bigint, bd2.divex - bd1.divex), bd1.divex))

add(bd1, bd2) ==
    IF bd1.divex = bd2.divex
    THEN Ok(BD(bd1.bigint + bd2.bigint, bd1.divex))
    ELSE IF bd1.divex > bd2.divex
    THEN LET bd2DivexAdjusted == ShiftLeft(bd2.bigint, bd1.divex - bd2.divex)
         IN Ok(BD(bd1.bigint + bd2DivexAdjusted, bd1.divex))
    ELSE LET difference == bd2.divex - bd1.divex
             half == ShiftLeft(ONE, difference - ONE)
             roundedBd2BigInt == ShiftRight(bd2.bigint + half, difference)
         IN Ok(BD(bd1.bigint + roundedBd2BigInt, bd1.divex))

subtract(bd1, bd2) ==
    IF bd1.divex = bd2.divex
    THEN Ok(BD(bd1.bigint - bd2.bigint, bd1.divex))
    ELSE IF bd1.divex > bd2.divex
    THEN LET bd2BigIntAdjusted == ShiftLeft(bd2.bigint, bd1.divex - bd2.divex)
         IN Ok(BD(bd1.bigint - bd2BigIntAdjusted, bd1.divex))
    ELSE LET difference == bd2.divex - bd1.divex
             half == ShiftLeft(ONE, difference - 1)
             roundedBd2BigInt == ShiftRight(bd2.bigint + half, difference)
         IN Ok(BD(bd1.bigint - roundedBd2BigInt, bd1.divex))

multiply_fixed(bd1, bd2) ==
    LET shiftAmount == bd2.divex
        rawProduct == bd1.bigint * bd2.bigint
        product ==
            IF shiftAmount > ZERO
            THEN LET half == ShiftLeft(ONE, shiftAmount - ONE)
                 IN ShiftRight(rawProduct + half, shiftAmount)
            ELSE IF shiftAmount < ZERO
            THEN ShiftLeft(rawProduct, 0 - shiftAmount)
            ELSE rawProduct
    IN Ok(BD(product, bd1.divex))

\* A faulty variant of normalize: the half added is a whole unit of the last
\* place kept (1 << shiftAmount).
normalize_wholeHalf(bd, precisionBits) ==
    LET shiftAmount == bitLength_bisection(bimath_abs(bd.bigint)) - precisionBits
        half == ShiftLeft(ONE, shiftAmount)
    IN BD(ShiftRight(bd.bigint + half, shiftAmount), bd.divex - shiftAmount)

\* normalize(bd, precisionBits): the mantissa trimmed (or widened) to
\* precisionBits bits, the divex following. A shift count <= 0 makes
\* half = 1n << (negative) = 0n and the right shift a left shift.
normalize(bd, precisionBits) ==
    LET mantissa == bimath_abs(bd.bigint)
        currentBitLength == bitLength_bisection(mantissa)
        shiftAmount == currentBitLength - precisionBits
        newDivex == bd.divex - shiftAmount
        half == ShiftLeft(ONE, shiftAmount - ONE)
        finalBigInt == ShiftRight(bd.bigint + half, shiftAmount)
    IN BD(finalBigInt, newDivex)

multiply_floating(bd1, bd2, mantissaBits) ==
    LET newBigInt == bd1.bigint * bd2.bigint
        newDivex == bd1.divex + bd2.divex
    IN Ok(normalize(BD(newBigInt, newDivex), mantissaBits))

\* A faulty variant of divide_fixed: the dividend is shifted by the guard bits alone,
\* the divisor's scale forgotten.
divide_fixed_dropsDivisorScale(bd1, bd2, workingPrecision) ==
    IF bd2.bigint = ZERO THEN Throw("DivisionByZero")
    ELSE LET scaledDividend == ShiftLeft(bd1.bigint, workingPrecision)
             quotient == BigIntDiv(scaledDividend, bd2.bigint)
         IN IF workingPrecision <= ZERO
            THEN Ok(BD(quotient, bd1.divex))
            ELSE LET half == ShiftLeft(ONE, workingPrecision - ONE)
                 IN Ok(BD(ShiftRight(quotient + half, workingPrecision), bd1.divex))

divide_fixed(bd1, bd2, workingPrecision) ==
    IF bd2.bigint = ZERO THEN Throw("DivisionByZero")
    ELSE LET shift == bd2.divex + workingPrecision
             scaledDividend == ShiftLeft(bd1.bigint, shift)
             quotient == BigIntDiv(scaledDividend, bd2.bigint)
         IN IF workingPrecision <= ZERO
            THEN Ok(BD(quotient, bd1.divex))
            ELSE LET half == ShiftLeft(ONE, workingPrecision - ONE)
                     finalQuotient == ShiftRight(quotient + half, workingPrecision)
                 IN Ok(BD(finalQuotient, bd1.divex))

Max(x, y) == IF x >= y THEN x ELSE y

\* A faulty variant of divide_floating: the zero dividend is tested before the zero
\* divisor, so 0 / 0 returns zero.
divide_floating_zeroDividendFirst(bd1, bd2, mantissaBits) ==
    IF bd1.bigint = ZERO THEN Ok(BD(ZERO, mantissaBits))
    ELSE IF bd2.bigint = ZERO THEN Throw("DivisionByZero")
    ELSE LET len1 == bitLength_bisection(bimath_abs(bd1.bigint))
             len2 == bitLength_bisection(bimath_abs(bd2.bigint))
             requiredShift == Max(len2 - len1, 0) + mantissaBits + 1
             quotient == BigIntDiv(ShiftLeft(bd1.bigint, requiredShift), bd2.bigint)
             newDivex == bd1.divex - bd2.divex + requiredShift
         IN Ok(normalize(BD(quotient, newDivex), mantissaBits))

\* A faulty variant of divide_floating: the dividend is shifted by mantissaBits
\* alone, whatever the bit lengths of the operands.
divide_floating_fixedShift(bd1, bd2, mantissaBits) ==
    IF bd2.bigint = ZERO THEN Throw("DivisionByZero")
    ELSE IF bd1.bigint = ZERO THEN Ok(BD(ZERO, mantissaBits))
    ELSE LET quotient == BigIntDiv(ShiftLeft(bd1.bigint, mantissaBits), bd2.bigint)
             newDivex == bd1.divex - bd2.divex + mantissaBits
         IN Ok(normalize(BD(quotient, newDivex), mantissaBits))

divide_floating(bd1, bd2, mantissaBits) ==
    IF bd2.bigint = ZERO THEN Throw("DivisionByZero")
    ELSE IF bd1.bigint = ZERO THEN Ok(BD(ZERO, mantissaBits))
    ELSE LET len1 == bitLength_bisection(bimath_abs(bd1.bigint))
             len2 == bitLength_bisection(bimath_abs(bd2.bigint))
             bitDifference == len2 - len1
             requiredShift == Max(bitDifference, 0) + mantissaBits + 1
             scaledDividend == ShiftLeft(bd1.bigint, requiredShift)
             quotient == BigIntDiv(scaledDividend, bd2.bigint)
             newDivex == bd1.divex - bd2.divex + requiredShift
         IN Ok(normalize(BD(quotient, newDivex), mantissaBits))

\* mod: bd2 is brought to bd1's divex (a right shift truncates it); the native
\* % throws a RangeError when that leaves a zero divisor.
mod(bd1, bd2) ==
    IF bd2.bigint = ZERO THEN Throw("DivisionByZero")
    ELSE LET bigint1 == bd1.bigint
             targetDivex == bd1.divex
             divexDifference == targetDivex - bd2.divex
             bigint2 ==
                 IF divexDifference > 0 THEN ShiftLeft(bd2.bigint, divexDifference)
                 ELSE IF divexDifference < 0
                 THEN ShiftRight(bd2.bigint, 0 - divexDifference)
                 ELSE bd2.bigint
         IN IF bigint2 = 0 THEN Throw("RangeError")
            ELSE Ok(BD(BigIntRem(bigint1, bigint2), targetDivex))

negate(bd) == Ok(BD(0 - bd.bigint, bd.divex))

\* -------------------------------------------------------------- comparison

\* A faulty variant of compare: the finer operand is shifted down to the coarser scale.
compare_scalesDown(bd1, bd2) ==
    LET bigint1 == IF bd1.divex > bd2.divex
                   THEN ShiftRight(bd1.bigint, bd1.divex - bd2.divex)
                   ELSE bd1.bigint
        bigint2 == IF bd2.divex > bd1.divex
                   THEN ShiftRight(bd2.bigint, bd2.divex - bd1.divex)
                   ELSE bd2.bigint
    IN IF bigint1 < bigint2 THEN 0 - 1 ELSE IF bigint1 > bigint2 THEN 1 ELSE 0

compare(bd1, bd2) ==
    LET bigint1 == IF bd2.divex > bd1.divex
                   THEN ShiftLeft(bd1.bigint, bd2.divex - bd1.divex)
                   ELSE bd1.bigint
        bigint2 == IF bd1.divex > bd2.divex
                   THEN ShiftLeft(bd2.bigint, bd1.divex - bd2.divex)
                   ELSE bd2.bigint
    IN IF bigint1 < bigint2 THEN 0 - 1 ELSE IF bigint1 > bigint2 THEN 1 ELSE 0

areEqual(bd1, bd2) == compare(bd1, bd2) = 0

isZero(bd) == bd.bigint = ZERO

\* -------------------------------------------------------------- conversion

\* A faulty variant of toBigInt: the half added is a whole unit (1 << divex).
toBigInt_wholeHalf(bd) ==
    IF bd.divex < 0 THEN ShiftLeft(bd.bigint, 0 - bd.divex)
    ELSE IF bd.divex = 0 THEN bd.bigint
    ELSE ShiftRight(bd.bigint + ShiftLeft(ONE, bd.divex), bd.divex)

toBigInt(bd) ==
    IF bd.divex < 0 THEN ShiftLeft(bd.bigint, 0 - bd.divex)
    ELSE IF bd.divex = 0 THEN bd.bigint
    ELSE LET half == ShiftLeft(ONE, bd.divex - ONE)
             adjustedBigInt == bd.bigint + half
         IN ShiftRight(adjustedBigInt, bd.divex)

\* round(bd): toBigInt rounds half up, FromBigInt rebuilds at the scale of bd
\* and throws when that scale is negative.
round(bd) ==
    LET bigintRounded == toBigInt(bd)
    IN FromBigInt(bigintRounded, bd.divex)

\* A faulty variant of floor: a negative number is truncated toward zero.
floor_truncates(bd) ==
    IF bd.divex <= 0 THEN BD(bd.bigint, bd.divex)
    ELSE LET scale == ShiftLeft(ONE, bd.divex)
             remainder == BigIntRem(bd.bigint, scale)
         IN BD(bd.bigint - remainder, bd.divex)

floor(bd) ==
    IF bd.divex <= 0 THEN BD(bd.bigint, bd.divex)
    ELSE LET scale == ShiftLeft(ONE, bd.divex)
             remainder == BigIntRem(bd.bigint, scale)
         IN IF remainder = ZERO THEN BD(bd.bigint, bd.divex)
            ELSE IF bd.bigint >= ZERO THEN BD(bd.bigint - remainder, bd.divex)
            ELSE BD(bd.bigint - remainder - scale, bd.divex)

ceil(bd) ==
    IF bd.divex <= 0 THEN BD(bd.bigint, bd.divex)
    ELSE LET scale == ShiftLeft(ONE, bd.divex)
             remainder == BigIntRem(bd.bigint, scale)
         IN IF remainder = ZERO THEN BD(bd.bigint, bd.divex)
            ELSE IF bd.bigint >= ZERO THEN BD(bd.bigint - remainder + scale, bd.divex)
            ELSE BD(bd.bigint - remainder, bd.divex)

\* The numbers (doubles) toNumber returns, by their bit fields.
PositiveZero == Double(0, 0, BigFromInt(ZERO))
Infinity(sign) == Double(sign, 2047, BigFromInt(ZERO))

MagIsOdd(m) == Limb(m, 1) % 2 = 1

\* m / 2^n rounded to the nearest integer, ties to even (the rounding of the
\* double arithmetic), for n >= 1.
MagShiftRightNearestEven(m, n) ==
    LET q == MagShiftRight(m, n)
        roundBit == MagIsOdd(MagShiftRight(m, n - 1))
        sticky == ~MagLowBitsZero(m, n - 1)
    IN IF roundBit /\ (sticky \/ MagIsOdd(q)) THEN MagAdd(q, <<1>>) ELSE q

\* Number(bigint): the nearest double, ties to even; Infinity from 2^1024 on.
NumberOfBigInt(x) ==
    LET bits == BigBitLength(x)
        sign == IF x.neg THEN 1 ELSE 0
        rounded == IF bits <= 53 THEN MagShiftLeft(x.mag, 53 - bits)
                   ELSE MagShiftRightNearestEven(x.mag, bits - 53)
        carried == Len(rounded) > 0 /\ MagCompare(rounded, MagShiftLeft(<<1>>, 53)) = 0
        significand == IF carried THEN MagShiftLeft(<<1>>, 52) ELSE rounded
        exponent == IF carried THEN bits ELSE bits - 1
    IN IF bits = 0 THEN PositiveZero
       ELSE IF exponent >= 1024 THEN Infinity(sign)
       ELSE Double(sign, exponent + 1023,
                   Big(FALSE, MagSub(significand, MagShiftLeft(<<1>>, 52))))

\* num * 2^k for a normal or zero double num and an integer k (num / 2^-k
\* for k < 0): exact, unless the result overflows to Infinity or falls among
\* the subnormal numbers, where it is rounded to the nearest, ties to even.
NumberTimesPowerOfTwo(num, k) ==
    IF IsZeroNumber(num) \/ ~isFinite(num) THEN num
    ELSE LET exponent == num.exponent + k
             significand == MagAdd(MagShiftLeft(<<1>>, 52), num.mantissa.mag)
         IN IF exponent >= 2047 THEN Infinity(num.sign)
            ELSE IF exponent >= 1 THEN Double(num.sign, exponent, num.mantissa)
            ELSE LET sub == MagShiftRightNearestEven(significand, 1 - exponent)
                 IN IF MagCompare(sub, MagShiftLeft(<<1>>, 52)) = 0
                    THEN Double(num.sign, 1, BigFromInt(ZERO))
                    ELSE Double(num.sign, 0, Big(FALSE, sub))

\* toNumber(bd), for a bigint beyond the model's integers.
toNumber(bd) ==
    IF bd.divex >= 0
    THEN IF bd.divex > MAX_DIVEX_BEFORE_INFINITY THEN PositiveZero
         ELSE LET mantissaAsNumber == NumberOfBigInt(bd.bigint)
              IN IF ~isFinite(mantissaAsNumber) THEN mantissaAsNumber
                 ELSE NumberTimesPowerOfTwo(mantissaAsNumber, 0 - bd.divex)
    ELSE LET exp == 0 - bd.divex
             mantissaAsNumber == NumberOfBigInt(bd.bigint)
         IN IF ~isFinite(mantissaAsNumber) THEN mantissaAsNumber
            ELSE IF exp > MAX_DIVEX_BEFORE_INFINITY
            THEN Infinity(mantissaAsNumber.sign)
            ELSE NumberTimesPowerOfTwo(mantissaAsNumber, exp)

\* Strings are sequences of characters. Digit(d) is the character of the
\* decimal digit d.
Digit(d) == <<"0", "1", "2", "3", "4", "5", "6", "7", "8", "9">>[d + 1]

\* bigint.toString(): the decimal digits, most significant first, after a
\* '-' for a negative bigint.
RECURSIVE NatToString(_)
NatToString(n) ==
    IF n < 10 THEN <<Digit(n)>>
    ELSE Append(NatToString(n \div 10), Digit(n % 10))

BigIntToString(n) == IF n < 0 THEN <<"-">> \o NatToString(0 - n) ELSE NatToString(n)

\* str.padStart(targetLength, ch)
padStart(str, targetLength, ch) ==
    IF Len(str) >= targetLength THEN str
    ELSE [k \in 1..(targetLength - Len(str)) |-> ch] \o str

\* The while loop of toExactString: the number of characters that remain
\* once the trailing zeros are dropped (i + 1 of the code).
RECURSIVE trimTrailingZeros(_, _)
trimTrailingZeros(decimalString, kept_) ==
    IF kept_ >= 1 /\ decimalString[kept_] = "0"
    THEN trimTrailingZeros(decimalString, kept_ - 1)
    ELSE kept_

\* A faulty variant of toExactString: the trailing zeros of the fraction stay.
toExactString_keepsZeros(bd) ==
    IF bd.bigint = ZERO THEN <<"0">>
    ELSE IF bd.divex < 0 THEN BigIntToString(toBigInt(bd))
    ELSE IF bd.divex = 0 THEN BigIntToString(bd.bigint)
    ELSE LET isNegative == bd.bigint < ZERO
             absBigInt == IF isNegative THEN 0 - bd.bigint ELSE bd.bigint
             integerPart == ShiftRight(absBigInt, bd.divex)
             fractionalPart == absBigInt - ShiftLeft(integerPart, bd.divex)
             decimalString == padStart(BigIntToString(fractionalPart * (FIVE ^ bd.divex)),
                                       bd.divex, "0")
         IN (IF isNegative THEN <<"-">> ELSE << >>)
                \o BigIntToString(integerPart) \o <<".">> \o decimalString

toExactString(bd) ==
    IF bd.bigint = ZERO THEN <<"0">>
    ELSE IF bd.divex < 0 THEN BigIntToString(toBigInt(bd))
    ELSE IF bd.divex = 0 THEN BigIntToString(bd.bigint)
    ELSE LET isNegative == bd.bigint < ZERO
             absBigInt == IF isNegative THEN 0 - bd.bigint ELSE bd.bigint
             integerPart == ShiftRight(absBigInt, bd.divex)
             fractionalPart == absBigInt - ShiftLeft(integerPart, bd.divex)
             sign == IF isNegative THEN <<"-">> ELSE << >>
         IN IF fractionalPart = ZERO THEN sign \o BigIntToString(integerPart)
            ELSE LET powerOfFive == FIVE ^ bd.divex
                     decimalDigits == fractionalPart * powerOfFive
                     padded == padStart(BigIntToString(decimalDigits), bd.divex, "0")
                     decimalString ==
                         SubSeq(padded, 1, trimTrailingZeros(padded, Len(padded)))
                     integerString == BigIntToString(integerPart)
                 IN IF Len(decimalString) = 0 THEN sign \o integerString
                    ELSE sign \o integerString \o <<".">> \o decimalString

\* ------------------------------------------------------- utility (in place)

\* A faulty variant of clone: the argument itself is returned, no object is allocated.
clone_returnsArgument(h, i) == [heap |-> h, ref |-> i]

\* clone(bd), for the object i of the heap h: the object literal allocates a
\* new object holding the same fields, and the reference to it is returned.
clone(h, i) ==
    [heap |-> Append(h, BD(h[i].bigint, h[i].divex)), ref |-> Len(h) + 1]

\* A faulty variant of setExponent: the discarded bits are truncated (no half is added).
setExponent_truncates(bd, divex) ==
    BD(ShiftLeft(bd.bigint, divex - bd.divex), divex)

\* setExponent(bd, divex): the fields of bd after the in-place rescale.
setExponent(bd, divex) ==
    LET difference == bd.divex - divex
    IN IF difference = 0 THEN bd
       ELSE IF difference < 0
       THEN BD(ShiftLeft(bd.bigint, 0 - difference), divex)
       ELSE LET half == ShiftLeft(ONE, difference - 1)
            IN BD(ShiftRight(bd.bigint + half, difference), divex)

\* fixPrecision(bd): setExponent to the default working precision in force.
fixPrecision(bd, defaultPrecision) == setExponent(bd, defaultPrecision)

\* A faulty variant of hasDefaultPrecision: the scale is compared with the
\* precision captured when the module was loaded.
hasDefaultPrecision_captured(bd, defaultPrecision) ==
    bd.divex = DEFAULT_MANTISSA_PRECISION_BITS

\* hasDefaultPrecision(bd), reading the default precision of the moment.
hasDefaultPrecision(bd, defaultPrecision) == bd.divex = defaultPrecision

abs(bd) == Ok(BD(bimath_abs(bd.bigint), bd.divex))

\* min and max return one of their arguments (the same object, not a copy):
\* Math.round(-bitLength / 2): the nearest integer, a half rounding up.
RoundHalfNegated(bitLength) == (1 - bitLength) \div 2

\* One iteration of the loop of sqrt, Newton's step x_k <- (n / x_k + x_k) / 2,
\* on the state of the loop: the guess x_k and, once the guess no longer
\* changes, what sqrt returns (no iteration follows the return).
sqrtStep(bd, loop, mantissaBits) ==
    IF loop.ret.status = "ok" THEN loop
    ELSE LET n_div_xk == divide_floating(bd, loop.x_k, mantissaBits * 2).value
             sum == add(n_div_xk, loop.x_k).value
             x_k == BD(ShiftRight(sum.bigint, ONE), sum.divex)
         IN [x_k |-> x_k,
             ret |-> IF areEqual(x_k, loop.x_k)
                     THEN Ok(normalize(x_k, mantissaBits))
                     ELSE NoResult]

\* n iterations of the loop (the first half of them, then the rest).
RECURSIVE sqrtLoop(_, _, _, _)
sqrtLoop(bd, loop, n, mantissaBits) ==
    IF n = 0 THEN loop
    ELSE IF n = 1 THEN sqrtStep(bd, loop, mantissaBits)
    ELSE LET firstHalf == sqrtLoop(bd, loop, n \div 2, mantissaBits)
         IN IF firstHalf.ret.status = "ok" THEN firstHalf
            ELSE sqrtLoop(bd, firstHalf, n - (n \div 2), mantissaBits)

sqrt(bd, mantissaBits) ==
    IF bd.bigint < ZERO THEN Throw("NegativeSqrt")
    ELSE IF bd.bigint = ZERO THEN Ok(BD(ZERO, bd.divex))
    ELSE LET bitLength == bitLength_bisection(bd.bigint) - bd.divex
             x_0 == normalize(BD(ONE, RoundHalfNegated(bitLength)), mantissaBits)
             loop == sqrtLoop(bd, [x_k |-> x_0, ret |-> NoResult],
                              MAX_ITERATIONS, mantissaBits)
         IN IF loop.ret.status = "ok" THEN loop.ret ELSE Throw("NoConvergence")

\* 1 for the first argument, 2 for the second.
min(bd1, bd2) == IF compare(bd1, bd2) = 1 THEN 2 ELSE 1

max(bd1, bd2) == IF compare(bd1, bd2) = 0 - 1 THEN 2 ELSE 1

\* The loop of powerInt: exponentiation by squaring, every product normalized
\* to the default mantissa bits (multiply_floating is called without
\* mantissaBits).
RECURSIVE powerIntLoop(_, _, _)
powerIntLoop(res, currentPower, exp) ==
    IF exp <= 0 THEN res
    ELSE powerIntLoop(
            IF exp % 2 = 1
            THEN multiply_floating(res, currentPower, DEFAULT_MANTISSA_PRECISION_BITS).value
            ELSE res,
            multiply_floating(currentPower, currentPower,
                              DEFAULT_MANTISSA_PRECISION_BITS).value,
            exp \div 2)

\* powerInt(base, exp) for an integer exp; FromBigInt(1n) takes the default
\* precision of the moment.
RECURSIVE powerInt(_, _, _)
powerInt(base, exp, defaultPrecision) ==
    IF exp < 0
    THEN LET invertedBase == divide_floating(FromBigInt(ONE, defaultPrecision).value,
                                             base, DEFAULT_MANTISSA_PRECISION_BITS)
         IN IF invertedBase.status # "ok" THEN invertedBase
            ELSE powerInt(invertedBase.value, 0 - exp, defaultPrecision)
    ELSE Ok(powerIntLoop(FromBigInt(ONE, defaultPrecision).value, base, exp))

\* pow, for the exponent given in halves (exponent = halves / 2, so an odd
\* count of halves is a non-integer exponent). A non-integer power of a
\* positive base goes on to ln and exp ("continues").
pow(base, halves, mantissaBits, defaultPrecision) ==
    LET isIntegerExponent == halves % 2 = 0
    IN IF base.bigint < ZERO /\ ~isIntegerExponent THEN Throw("DomainError")
       ELSE IF base.bigint = ZERO
       THEN IF halves > 0 THEN Ok(BD(ZERO, mantissaBits))
            ELSE IF halves < 0 THEN Throw("DivisionByZero")
            ELSE FromBigInt(ONE, mantissaBits)
       ELSE IF isIntegerExponent THEN powerInt(base, halves \div 2, defaultPrecision)
       ELSE [status |-> "continues", value |-> "none"]

\* ------------------------------------- bimath.ts: the tables of the testers
\*
\* bitLength_bisection keeps three tables and their length in the module
\* bimath: entry k holds the exponent 32 << k (as a number and as a bigint)
\* and the tester 1n << exponent. A call appends the entries it needs and
\* never writes to an entry it finds. The state is the record of the four.

NoTesters ==
    [testersCoeff |-> << >>, testersBigCoeff |-> << >>, testers |-> << >>,
     testersN |-> 0]

\* The three pushes and the increment made when testersN === k. 32 << testersN
\* is 32 * 2^testersN while that is below 2^31 (testersN <= 25).
pushTester(t) ==
    LET coeffs == Append(t.testersCoeff, 32 * (2 ^ t.testersN))
        bigCoeffs == Append(t.testersBigCoeff, BigFromInt(coeffs[t.testersN + 1]))
        all == Append(t.testers,
                      BigShiftLeft(BigFromInt(ONE), BigToInt(bigCoeffs[t.testersN + 1])))
    IN [testersCoeff |-> coeffs, testersBigCoeff |-> bigCoeffs, testers |-> all,
        testersN |-> t.testersN + 1]

\* The first loop, from k: the tables are extended when k reaches their end,
\* and the loop breaks at the first tester above x. (Entry k of the source is
\* element k + 1 of the sequence.)
RECURSIVE testersScan(_, _, _)
testersScan(t, x, k) ==
    LET extended == IF t.testersN = k THEN pushTester(t) ELSE t
    IN IF BigCompare(x, extended.testers[k + 1]) < 0
       THEN [k |-> k, bimath |-> extended]
       ELSE testersScan(extended, x, k + 1)

\* The second loop, `while (k--)`: the halves of the remaining exponent.
RECURSIVE testersBisect(_, _, _, _)
testersBisect(t, k, i, a) ==
    IF k = 0 THEN [i |-> i, a |-> a]
    ELSE LET b == BigShiftRight(a, BigToInt(t.testersBigCoeff[k]))
         IN IF b.mag # << >>
            THEN testersBisect(t, k - 1, i + t.testersCoeff[k], b)
            ELSE testersBisect(t, k - 1, i, a)

\* Math.clz32(Number(a)) for a bigint 0 <= a < 2^32.
BigClz32(a) == 32 - BigBitLength(a)

\* Mutation of bitLength_bisection_tables: the bisection starts from the
\* last tester of the tables instead of the tester the scan stopped at.
bitLength_bisection_lastTester(t, x) ==
    IF x.mag = << >> THEN [result |-> 0, bimath |-> t]
    ELSE LET ax == Big(FALSE, x.mag)
             scan == testersScan(t, ax, 0)
             after == scan.bimath
         IN IF after.testersN = 1
            THEN [result |-> 32 - BigClz32(ax), bimath |-> after]
            ELSE LET k == after.testersN - 2
                     top == testersBisect(after, k, after.testersCoeff[k + 1],
                                BigShiftRight(ax, BigToInt(after.testersBigCoeff[k + 1])))
                 IN [result |-> top.i + 32 - BigClz32(top.a), bimath |-> after]

\* bitLength_bisection(x) called while the tables are t: what it returns and
\* the tables it leaves.
bitLength_bisection_tables(t, x) ==
    IF x.mag = << >> THEN [result |-> 0, bimath |-> t]
    ELSE LET ax == Big(FALSE, x.mag)
             scan == testersScan(t, ax, 0)
             after == scan.bimath
         IN IF scan.k = 0
            THEN [result |-> 32 - BigClz32(ax), bimath |-> after]
            ELSE LET k == scan.k - 1
                     top == testersBisect(after, k, after.testersCoeff[k + 1],
                                BigShiftRight(ax, BigToInt(after.testersBigCoeff[k + 1])))
                 IN [result |-> top.i + 32 - BigClz32(top.a), bimath |-> after]

\* The tables after a call has measured bigints of which the longest has
\* `bits` bits (0: it measured none, or only zeros). The scan compares x with
\* powers of two, so the tables a call leaves depend on the length of x only,
\* and measuring a shorter value after a longer one appends nothing.
Measuring(t, bits) ==
    IF bits = 0 THEN t
    ELSE bitLength_bisection_tables(t, BigShiftLeft(BigFromInt(ONE), bits - 1)).bimath

\* ---------------------------------------------------------------------- exp
\*
\* exp works on ln 2 at the default precision (a 23-bit mantissa initially) and
\* on sums that grow with e^y: its BigDecimals hold bigints beyond the model's
\* integers. The functions exp calls are given here on such BigDecimals.

BigNormalize(bd, precisionBits) ==
    LET currentBitLength == BigBitLength(bd.bigint)
        shiftAmount == currentBitLength - precisionBits
        newDivex == bd.divex - shiftAmount
        half == BigShift(BigFromInt(ONE), shiftAmount - ONE)
        finalBigInt == BigShift(BigAdd(bd.bigint, half), 0 - shiftAmount)
    IN BD(finalBigInt, newDivex)

BigMultiplyFloating(bd1, bd2, mantissaBits) ==
    BigNormalize(BD(BigMul(bd1.bigint, bd2.bigint), bd1.divex + bd2.divex), mantissaBits)

\* The length of the longest bigint multiply_floating measures: normalize
\* measures the product.
BigMultiplyMeasures(bd1, bd2) == BigBitLength(BigMul(bd1.bigint, bd2.bigint))

\* The quotient divide_floating hands to normalize, for non-zero operands.
BigQuotient(bd1, bd2, mantissaBits) ==
    LET len1 == BigBitLength(bd1.bigint)
        len2 == BigBitLength(bd2.bigint)
        bitDifference == len2 - len1
        requiredShift == Max(bitDifference, 0) + mantissaBits + 1
        scaledDividend == BigShiftLeft(bd1.bigint, requiredShift)
        quotient == BigDiv(scaledDividend, bd2.bigint)
        newDivex == bd1.divex - bd2.divex + requiredShift
    IN BD(quotient, newDivex)

BigDivideFloating(bd1, bd2, mantissaBits) ==
    IF bd2.bigint.mag = << >> THEN Throw("DivisionByZero")
    ELSE IF bd1.bigint.mag = << >> THEN Ok(BD(BigFromInt(ZERO), mantissaBits))
    ELSE Ok(BigNormalize(BigQuotient(bd1, bd2, mantissaBits), mantissaBits))

\* The length of the longest bigint divide_floating measures: the two
\* operands, then the quotient in normalize; none when it returns early.
BigDivideMeasures(bd1, bd2, mantissaBits) ==
    IF bd2.bigint.mag = << >> \/ bd1.bigint.mag = << >> THEN 0
    ELSE Max(Max(BigBitLength(bd1.bigint), BigBitLength(bd2.bigint)),
             BigBitLength(BigQuotient(bd1, bd2, mantissaBits).bigint))

\* add and subtract: bd2 brought to the scale of bd1, rounded half up when
\* that scale is the smaller one.
BigAtScaleOf(bd1, bd2) ==
    IF bd1.divex >= bd2.divex THEN BigShiftLeft(bd2.bigint, bd1.divex - bd2.divex)
    ELSE LET difference == bd2.divex - bd1.divex
             half == BigShiftLeft(BigFromInt(ONE), difference - 1)
         IN BigShiftRight(BigAdd(bd2.bigint, half), difference)

BigAddDecimal(bd1, bd2) == BD(BigAdd(bd1.bigint, BigAtScaleOf(bd1, bd2)), bd1.divex)

BigSubtractDecimal(bd1, bd2) ==
    BD(BigAdd(bd1.bigint, BigNegate(BigAtScaleOf(bd1, bd2))), bd1.divex)

BigAreEqual(bd1, bd2) ==
    LET bigint1 == IF bd2.divex > bd1.divex
                   THEN BigShiftLeft(bd1.bigint, bd2.divex - bd1.divex)
                   ELSE bd1.bigint
        bigint2 == IF bd1.divex > bd2.divex
                   THEN BigShiftLeft(bd2.bigint, bd1.divex - bd2.divex)
                   ELSE bd2.bigint
    IN BigCompare(bigint1, bigint2) = 0

BigToBigInt(bd) ==
    IF bd.divex < 0 THEN BigShiftLeft(bd.bigint, 0 - bd.divex)
    ELSE IF bd.divex = 0 THEN bd.bigint
    ELSE LET half == BigShiftLeft(BigFromInt(ONE), bd.divex - ONE)
         IN BigShiftRight(BigAdd(bd.bigint, half), bd.divex)

BigFromBigInt(num, precision) == BD(BigShiftLeft(num, precision), precision)

\* Math.LN2 = 0x3FE62E42FEFA39EF: exponent field 1022, mantissa 0x62E42FEFA39EF.
MATH_LN2 ==
    Double(0, 1022, BigAdd(BigShiftLeft(BigFromInt(25923775), 26), BigFromInt(49953263)))

\* One pass of the loop of exp, for the counter n, on the state of the loop:
\* term, sum and lastSum and, once sum equals lastSum, what exp returns (no
\* pass follows the return); measured is the length of the longest bigint
\* handed to bitLength_bisection so far.
expStep(y, k, loop, n, mantissaBits) ==
    IF loop.ret.status = "ok" THEN loop
    ELSE LET n_bd == BigFromBigInt(BigFromInt(n), mantissaBits)
             y_div_n == BigDivideFloating(y, n_bd, mantissaBits).value
             term == BigMultiplyFloating(loop.term, y_div_n, mantissaBits)
             sum == BigAddDecimal(loop.sum, term)
         IN [term |-> term, sum |-> sum, lastSum |-> sum,
             measured |-> Max(loop.measured,
                              Max(BigDivideMeasures(y, n_bd, mantissaBits),
                                  BigMultiplyMeasures(loop.term, y_div_n))),
             ret |-> IF BigAreEqual(sum, loop.lastSum)
                     THEN Ok(BD(sum.bigint, sum.divex - BigToInt(k)))
                     ELSE NoResult]

\* The passes first..last of the loop (the first half of them, then the rest).
RECURSIVE expLoop(_, _, _, _, _, _)
expLoop(y, k, loop, first, last, mantissaBits) ==
    IF first = last THEN expStep(y, k, loop, first, mantissaBits)
    ELSE LET mid == (first + last) \div 2
             firstHalf == expLoop(y, k, loop, first, mid, mantissaBits)
         IN IF firstHalf.ret.status = "ok" THEN firstHalf
            ELSE expLoop(y, k, firstHalf, mid + 1, last, mantissaBits)

\* exp(bd, mantissaBits); FromNumber(Math.LN2) takes the default precision of
\* the moment. ret is what exp returns or throws, measured the length of the
\* longest bigint it handed to bitLength_bisection.
expRun(bd, mantissaBits, defaultPrecision) ==
    LET LN2 == FromNumber(MATH_LN2, defaultPrecision).value
        bd_div_ln2 == BigDivideFloating(bd, LN2, mantissaBits)
    IN IF bd_div_ln2.status # "ok" THEN [ret |-> bd_div_ln2, measured |-> 0]
       ELSE LET k == BigToBigInt(bd_div_ln2.value)
                k_bd == BigFromBigInt(k, mantissaBits)
                k_ln2 == BigMultiplyFloating(k_bd, LN2, mantissaBits)
                y == BigSubtractDecimal(bd, k_ln2)
                sum == BigFromBigInt(BigFromInt(1), mantissaBits)
                lastSum == BigFromBigInt(BigFromInt(0), mantissaBits)
                loop == expLoop(y, k, [term |-> sum, sum |-> sum, lastSum |-> lastSum,
                                       measured |-> Max(BigDivideMeasures(bd, LN2, mantissaBits),
                                                        BigMultiplyMeasures(k_bd, LN2)),
                                       ret |-> NoResult],
                                1, MAX_ITERATIONS, mantissaBits)
            IN [ret |-> IF loop.ret.status = "ok" THEN loop.ret
                        ELSE Throw("NoConvergence"),
                measured |-> loop.measured]

exp(bd, mantissaBits, defaultPrecision) == expRun(bd, mantissaBits, defaultPrecision).ret

\* ----------------------------------------------------------- state machine

NoBD == BD(0, 0)
NoClone == [ref |-> 0, of |-> 0]

\* The record of a call: the operation, the objects passed (i, j: 0 when there
\* is none) and their fields when the call was made (a, b), the numeric
\* arguments (n: a bigint, p: a precision, a scale or an exponent), what it
\* returned or threw (ret), and the object returned when the result is a
\* BigDecimal that lives on the heap (ref, else 0).
CalledWith(op, i, j, n, p, ret, ref) ==
    [op |-> op, i |-> i, j |-> j,
     a |-> IF i = 0 THEN NoBD ELSE heap[i],
     b |-> IF j = 0 THEN NoBD ELSE heap[j],
     n |-> n, p |-> p, ret |-> ret, ref |-> ref]

Called(op, i, j, p, ret, ref) == CalledWith(op, i, j, 0, p, ret, ref)

Idle == [op |-> "idle", i |-> 0, j |-> 0, a |-> NoBD, b |-> NoBD,
         n |-> 0, p |-> 0, ret |-> NoResult, ref |-> 0]

Objects == 1..Len(heap)

\* A call that reads its arguments and returns a new value.
Returns(op, i, j, p, ret) ==
    /\ call.op = "idle"
    /\ call' = Called(op, i, j, p, ret, 0)
    /\ UNCHANGED <<heap, kept, DEFAULT_WORKING_PRECISION, bimath>>

\* A call that also hands bigints to bitLength_bisection, the longest of
\* `bits` bits: the tables of bimath grow to hold it.
ReturnsMeasuring(op, i, j, p, ret, bits) ==
    /\ call.op = "idle"
    /\ call' = Called(op, i, j, p, ret, 0)
    /\ bimath' = Measuring(bimath, bits)
    /\ UNCHANGED <<heap, kept, DEFAULT_WORKING_PRECISION>>

\* What the floating-point operations measure, as the length of the first
\* non-zero bigint they hand to bitLength_bisection (0: none). The bigints of
\* these operations are below the first tester 2^32 in this model, so the
\* first measurement leaves the tables every later one finds.
multiply_floating_measures(bd1, bd2) == bitLength_bisection(bd1.bigint * bd2.bigint)

divide_floating_measures(bd1, bd2) ==
    IF bd2.bigint = ZERO \/ bd1.bigint = ZERO THEN 0 ELSE bitLength_bisection(bd1.bigint)

sqrt_measures(bd) == IF bd.bigint > ZERO THEN bitLength_bisection(bd.bigint) ELSE 0

\* powerInt multiplies 1 by the base when the exponent is positive and
\* divides 1 by the base when it is negative.
powerInt_measures(base, exponent, defaultPrecision) ==
    IF exponent > 0
    THEN multiply_floating_measures(FromBigInt(ONE, defaultPrecision).value, base)
    ELSE IF exponent < 0
    THEN divide_floating_measures(FromBigInt(ONE, defaultPrecision).value, base)
    ELSE 0

\* pow measures what powerInt measures, when it gets there.
pow_measures(base, halves, defaultPrecision) ==
    IF base.bigint # ZERO /\ halves % 2 = 0
    THEN powerInt_measures(base, halves \div 2, defaultPrecision)
    ELSE 0

CallSetGlobalPrecision(precision) ==
    /\ call.op = "idle"
    /\ IF precision < 0
       THEN /\ call' = Called("SetGlobalPrecision", 0, 0, precision,
                              Throw("InvalidPrecision"), 0)
            /\ UNCHANGED DEFAULT_WORKING_PRECISION
       ELSE /\ call' = Called("SetGlobalPrecision", 0, 0, precision, Ok("none"), 0)
            /\ DEFAULT_WORKING_PRECISION' = precision
    /\ UNCHANGED <<heap, kept, bimath>>

CallFromBigInt(num, precision) ==
    /\ call.op = "idle"
    /\ call' = CalledWith("FromBigInt", 0, 0, num, precision,
                          FromBigInt(num, precision), 0)
    /\ UNCHANGED <<heap, kept, DEFAULT_WORKING_PRECISION, bimath>>

CallFromNumber(num, precision) ==
    /\ call.op = "idle"
    /\ call' = CalledWith("FromNumber", 0, 0, num, precision,
                          FromNumber(num, precision), 0)
    /\ UNCHANGED <<heap, kept, DEFAULT_WORKING_PRECISION, bimath>>

\* The constructors called without a precision: the parameter's default is
\* DEFAULT_WORKING_PRECISION, read when the call is made.
CallFromBigIntDefault(num) ==
    /\ call.op = "idle"
    /\ call' = CalledWith("FromBigInt_default", 0, 0, num, DEFAULT_WORKING_PRECISION,
                          FromBigInt(num, DEFAULT_WORKING_PRECISION), 0)
    /\ UNCHANGED <<heap, kept, DEFAULT_WORKING_PRECISION, bimath>>

CallFromNumberDefault(num) ==
    /\ call.op = "idle"
    /\ call' = CalledWith("FromNumber_default", 0, 0, num, DEFAULT_WORKING_PRECISION,
                          FromNumber(num, DEFAULT_WORKING_PRECISION), 0)
    /\ UNCHANGED <<heap, kept, DEFAULT_WORKING_PRECISION, bimath>>

CallAdd(i, j) == Returns("add", i, j, 0, add(heap[i], heap[j]))

CallSubtract(i, j) == Returns("subtract", i, j, 0, subtract(heap[i], heap[j]))

CallMultiplyFixed(i, j) ==
    Returns("multiply_fixed", i, j, 0, multiply_fixed(heap[i], heap[j]))

CallMultiplyFloating(i, j, mantissaBits) ==
    ReturnsMeasuring("multiply_floating", i, j, mantissaBits,
                     multiply_floating(heap[i], heap[j], mantissaBits),
                     multiply_floating_measures(heap[i], heap[j]))

CallDivideFixed(i, j, workingPrecision) ==
    Returns("divide_fixed", i, j, workingPrecision,
            divide_fixed(heap[i], heap[j], workingPrecision))

CallDivideFloating(i, j, mantissaBits) ==
    ReturnsMeasuring("divide_floating", i, j, mantissaBits,
                     divide_floating(heap[i], heap[j], mantissaBits),
                     divide_floating_measures(heap[i], heap[j]))

\* The same calls without a precision. The default of workingPrecision is
\* DEFAULT_WORKING_PRECISION, read when the call is made; the default of
\* mantissaBits (and of normalize's precisionBits) is the constant
\* DEFAULT_MANTISSA_PRECISION_BITS, set once from the initial precision.
CallDivideFixedDefault(i, j) ==
    Returns("divide_fixed_default", i, j, DEFAULT_WORKING_PRECISION,
            divide_fixed(heap[i], heap[j], DEFAULT_WORKING_PRECISION))

CallMultiplyFloatingDefault(i, j) ==
    ReturnsMeasuring("multiply_floating_default", i, j, DEFAULT_MANTISSA_PRECISION_BITS,
                     multiply_floating(heap[i], heap[j], DEFAULT_MANTISSA_PRECISION_BITS),
                     multiply_floating_measures(heap[i], heap[j]))

CallDivideFloatingDefault(i, j) ==
    ReturnsMeasuring("divide_floating_default", i, j, DEFAULT_MANTISSA_PRECISION_BITS,
                     divide_floating(heap[i], heap[j], DEFAULT_MANTISSA_PRECISION_BITS),
                     divide_floating_measures(heap[i], heap[j]))

CallMod(i, j) == Returns("mod", i, j, 0, mod(heap[i], heap[j]))

\* pow is called with the exponents whose products stay within the model's
\* integers at 23 mantissa bits (0 and 1, and any exponent of a zero base),
\* and with the non-integer exponents it rejects.
CallPow(i, halves, mantissaBits) ==
    /\ call.op = "idle"
    /\ heap[i].bigint = ZERO \/ halves \in {0, 2} \/ (heap[i].bigint < ZERO /\ halves % 2 = 1)
    /\ call' = CalledWith("pow", i, 0, mantissaBits, halves,
                          pow(heap[i], halves, mantissaBits, DEFAULT_WORKING_PRECISION), 0)
    /\ bimath' = Measuring(bimath, pow_measures(heap[i], halves, DEFAULT_WORKING_PRECISION))
    /\ UNCHANGED <<heap, kept, DEFAULT_WORKING_PRECISION>>

CallPowerInt(i, exponent) ==
    ReturnsMeasuring("powerInt", i, 0, exponent,
                     powerInt(heap[i], exponent, DEFAULT_WORKING_PRECISION),
                     powerInt_measures(heap[i], exponent, DEFAULT_WORKING_PRECISION))

CallSqrt(i, mantissaBits) ==
    ReturnsMeasuring("sqrt", i, 0, mantissaBits, sqrt(heap[i], mantissaBits),
                     sqrt_measures(heap[i]))

CallNegate(i) == Returns("negate", i, 0, 0, negate(heap[i]))

CallAbs(i) == Returns("abs", i, 0, 0, abs(heap[i]))

CallCompare(i, j) == Returns("compare", i, j, 0, Ok(compare(heap[i], heap[j])))

CallAreEqual(i, j) == Returns("areEqual", i, j, 0, Ok(areEqual(heap[i], heap[j])))

CallIsZero(i) == Returns("isZero", i, 0, 0, Ok(isZero(heap[i])))

CallToBigInt(i) == Returns("toBigInt", i, 0, 0, Ok(toBigInt(heap[i])))

CallRound(i) == Returns("round", i, 0, 0, round(heap[i]))

CallFloor(i) == Returns("floor", i, 0, 0, Ok(floor(heap[i])))

CallCeil(i) == Returns("ceil", i, 0, 0, Ok(ceil(heap[i])))

CallToExactString(i) == Returns("toExactString", i, 0, 0, Ok(toExactString(heap[i])))

\* toNumber of the BigDecimal {bigint: n << shift, divex}, an object the
\* caller builds for the call.
CallToNumber(n, shift, divex) ==
    /\ call.op = "idle"
    /\ call' = [op |-> "toNumber", i |-> 0, j |-> 0,
                a |-> BD(BigShiftLeft(BigFromInt(n), shift), divex), b |-> NoBD,
                n |-> n, p |-> shift,
                ret |-> Ok(toNumber(BD(BigShiftLeft(BigFromInt(n), shift), divex))),
                ref |-> 0]
    /\ UNCHANGED <<heap, kept, DEFAULT_WORKING_PRECISION, bimath>>

CallHasDefaultPrecision(i) ==
    Returns("hasDefaultPrecision", i, 0, DEFAULT_WORKING_PRECISION,
            Ok(hasDefaultPrecision(heap[i], DEFAULT_WORKING_PRECISION)))

\* min and max hand back one of the objects they were given.
CallMin(i, j) ==
    LET r == IF min(heap[i], heap[j]) = 1 THEN i ELSE j
    IN /\ call.op = "idle"
       /\ call' = Called("min", i, j, 0, Ok(heap[r]), r)
       /\ UNCHANGED <<heap, kept, DEFAULT_WORKING_PRECISION, bimath>>

CallMax(i, j) ==
    LET r == IF max(heap[i], heap[j]) = 1 THEN i ELSE j
    IN /\ call.op = "idle"
       /\ call' = Called("max", i, j, 0, Ok(heap[r]), r)
       /\ UNCHANGED <<heap, kept, DEFAULT_WORKING_PRECISION, bimath>>

\* The caller clones one of the objects it started with and keeps the clone
\* (kept.ref, cloned from kept.of) in place of the clone it kept before, which
\* is dropped: the dropped clone is always the last object of the heap.
CallClone(i) ==
    LET live == IF kept.ref = 0 THEN heap ELSE SubSeq(heap, 1, Len(heap) - 1)
        r == clone(live, i)
    IN /\ call.op = "idle"
       /\ i # kept.ref
       /\ heap' = r.heap
       /\ kept' = [ref |-> r.ref, of |-> i]
       /\ call' = Called("clone", i, 0, 0, Ok(r.heap[r.ref]), r.ref)
       /\ UNCHANGED <<DEFAULT_WORKING_PRECISION, bimath>>

\* setExponent assigns to the fields of the object it is given.
CallSetExponent(i, divex) ==
    /\ call.op = "idle"
    /\ heap' = [heap EXCEPT ![i] = setExponent(heap[i], divex)]
    /\ call' = Called("setExponent", i, 0, divex, Ok("none"), 0)
    /\ UNCHANGED <<kept, DEFAULT_WORKING_PRECISION, bimath>>

\* exp of the BigDecimal {bigint, divex}, an object the caller builds for the
\* call.
CallExp(bigint, divex, mantissaBits) ==
    /\ call.op = "idle"
    /\ \E run \in {expRun(BD(BigFromInt(bigint), divex), mantissaBits,
                          DEFAULT_WORKING_PRECISION)} :
          /\ call' = [op |-> "exp", i |-> 0, j |-> 0,
                      a |-> BD(BigFromInt(bigint), divex), b |-> NoBD,
                      n |-> DEFAULT_WORKING_PRECISION, p |-> mantissaBits,
                      ret |-> run.ret, ref |-> 0]
          /\ bimath' = Measuring(bimath, run.measured)
    /\ UNCHANGED <<heap, kept, DEFAULT_WORKING_PRECISION>>

\* fixPrecision, called while the default precision is a precision of the
\* model (objects at the initial 23 bits would outgrow the model's integers).
CallFixPrecision(i) ==
    /\ call.op = "idle"
    /\ DEFAULT_WORKING_PRECISION <= MaxPrecision
    /\ heap' = [heap EXCEPT ![i] = fixPrecision(heap[i], DEFAULT_WORKING_PRECISION)]
    /\ call' = Called("fixPrecision", i, 0, DEFAULT_WORKING_PRECISION, Ok("none"), 0)
    /\ UNCHANGED <<kept, DEFAULT_WORKING_PRECISION, bimath>>

\* The caller is done with the result of the last call.
Return ==
    /\ call.op # "idle"
    /\ call' = Idle
    /\ UNCHANGED <<heap, kept, DEFAULT_WORKING_PRECISION, bimath>>

\* The BigDecimals a caller may hold: any mantissa with any scale (built by
\* the constructors, by the floating-point operations, or as literals).
Values == [bigint : MantissaRange, divex : DivexRange]

Init ==
    /\ heap \in [1..2 -> Values]
    /\ kept = NoClone
    /\ DEFAULT_WORKING_PRECISION = INITIAL_WORKING_PRECISION
    /\ bimath = NoTesters
    /\ call = Idle

\* One call on the objects the caller holds.
Next ==
    \/ \E n \in MantissaRange, p \in PrecisionRange \cup {0 - 1} : CallFromBigInt(n, p)
    \/ \E i \in Objects, j \in Objects : CallAdd(i, j)
    \/ \E i \in Objects, j \in Objects : CallSubtract(i, j)
    \/ \E i \in Objects, j \in Objects : CallMultiplyFixed(i, j)
    \/ \E i \in Objects, j \in Objects, k \in MantissaBitsRange :
          CallMultiplyFloating(i, j, k)
    \/ \E i \in Objects, j \in Objects, wp \in PrecisionRange : CallDivideFixed(i, j, wp)
    \/ \E i \in Objects, j \in Objects, k \in MantissaBitsRange :
          CallDivideFloating(i, j, k)
    \/ \E i \in Objects, j \in Objects : CallMod(i, j)
    \/ \E i \in Objects, h \in (0 - 2)..2, k \in MantissaBitsRange : CallPow(i, h, k)
    \/ \E i \in Objects, k \in MantissaBitsRange : CallSqrt(i, k)
    \/ \E i \in Objects, e \in {0, 1} : CallPowerInt(i, e)
    \/ \E i \in Objects : CallNegate(i)
    \/ \E i \in Objects : CallAbs(i)
    \/ \E i \in Objects, j \in Objects : CallCompare(i, j)
    \/ \E i \in Objects, j \in Objects : CallAreEqual(i, j)
    \/ \E i \in Objects : CallIsZero(i)
    \/ \E i \in Objects : CallToBigInt(i)
    \/ \E i \in Objects : CallRound(i)
    \/ \E i \in Objects : CallFloor(i)
    \/ \E i \in Objects : CallCeil(i)
    \/ \E i \in Objects, j \in Objects : CallMin(i, j)
    \/ \E i \in Objects, j \in Objects : CallMax(i, j)
    \/ \E i \in Objects : CallClone(i)
    \/ \E i \in Objects, d \in DivexRange : CallSetExponent(i, d)

Spec == Init /\ [][Next]_vars

\* A session: any sequence of calls on one object and the clone kept of it,
\* with the default precision set on the way.
SessionMantissaRange == (0 - SessionMaxMantissa)..SessionMaxMantissa
SessionDivexRange == 0..SessionMaxDivex
SessionValues == [bigint : SessionMantissaRange, divex : SessionDivexRange]

\* The numbers 0, 1 and 1.5 and the smallest subnormal steps, of either sign.
SessionNumbers ==
    {Double(sgn, e, m) : sgn \in {0, 1}, e \in {0, 1023},
                         m \in {BigFromInt(0), BigShiftLeft(BigFromInt(1), 51)}}

SessionInit ==
    /\ heap \in [1..1 -> SessionValues]
    /\ kept = NoClone
    /\ DEFAULT_WORKING_PRECISION = INITIAL_WORKING_PRECISION
    /\ bimath = NoTesters
    /\ call = Idle

SessionNext ==
    \/ \E p \in SessionDivexRange \cup {0 - 1} : CallSetGlobalPrecision(p)
    \/ \E n \in SessionMantissaRange, p \in SessionDivexRange \cup {0 - 1} :
          CallFromBigInt(n, p)
    \/ \E i \in Objects, j \in Objects : CallAdd(i, j)
    \/ \E i \in Objects, j \in Objects : CallSubtract(i, j)
    \/ \E i \in Objects, j \in Objects : CallMultiplyFixed(i, j)
    \/ \E i \in Objects, j \in Objects, k \in 1..SessionMaxDivex :
          CallMultiplyFloating(i, j, k)
    \/ \E i \in Objects, j \in Objects, wp \in SessionDivexRange :
          CallDivideFixed(i, j, wp)
    \/ \E i \in Objects, j \in Objects, k \in 1..SessionMaxDivex :
          CallDivideFloating(i, j, k)
    \/ \E i \in Objects, j \in Objects : CallMod(i, j)
    \/ \E i \in Objects, h \in (0 - 1)..1, k \in 1..SessionMaxDivex : CallPow(i, h, k)
    \/ \E i \in Objects, k \in 1..SessionMaxDivex : CallSqrt(i, k)
    \/ \E i \in Objects, e \in {0, 1} : CallPowerInt(i, e)
    \/ \E i \in Objects : CallNegate(i)
    \/ \E i \in Objects : CallAbs(i)
    \/ \E i \in Objects, j \in Objects : CallCompare(i, j)
    \/ \E i \in Objects, j \in Objects : CallAreEqual(i, j)
    \/ \E i \in Objects : CallIsZero(i)
    \/ \E i \in Objects : CallToBigInt(i)
    \/ \E i \in Objects : CallRound(i)
    \/ \E i \in Objects : CallFloor(i)
    \/ \E i \in Objects : CallCeil(i)
    \/ \E i \in Objects, j \in Objects : CallMin(i, j)
    \/ \E i \in Objects, j \in Objects : CallMax(i, j)
    \/ \E i \in Objects : CallClone(i)
    \/ \E i \in Objects, d \in SessionDivexRange : CallSetExponent(i, d)
    \/ \E i \in Objects : CallFixPrecision(i)
    \/ \E n \in SessionMantissaRange : CallFromBigIntDefault(n)
    \/ \E num \in SessionNumbers : CallFromNumberDefault(num)
    \/ \E i \in Objects : CallHasDefaultPrecision(i)
    \/ \E i \in Objects, j \in Objects : CallDivideFixedDefault(i, j)
    \/ \E i \in Objects, j \in Objects : CallMultiplyFloatingDefault(i, j)
    \/ \E i \in Objects, j \in Objects : CallDivideFloatingDefault(i, j)
    \/ Return

SessionSpec == SessionInit /\ [][SessionNext]_vars

\* The constructors, on numbers given by their bits: zero, subnormal, normal
\* (around 1, the smallest and the largest), infinite and NaN, of either sign.
NumberExponents ==
    {0, 1, 2046, 2047} \cup ((1023 - MaxExponentOffset)..(1023 + MaxExponentOffset))
NumberMantissas ==
    {BigShiftLeft(BigFromInt(g), 52 - MaxMantissaTopBits) :
        g \in 0..((2 ^ MaxMantissaTopBits) - 1)}
    \cup {BigFromInt(1), BigAdd(BigShiftLeft(BigFromInt(1), 52), BigFromInt(0 - 1))}
Numbers ==
    {Double(s, e, m) : s \in {0, 1}, e \in NumberExponents, m \in NumberMantissas}
NumberPrecisions == PrecisionRange \cup {0 - 1, 52, 1074}

\* The BigDecimals converted to numbers: a small mantissa shifted to the
\* widths, and scales, around those where a double overflows or underflows.
ToNumberMantissas == {0 - 3, 0 - 1, 0, 1, 3}
ToNumberShifts ==
    {0, 52, 53, 1100} \cup ((1023 - MaxExponentOffset)..(1023 + MaxExponentOffset))
ToNumberDivexes ==
    LET around == (1023 - MaxExponentOffset)..(1023 + MaxExponentOffset)
    IN {0 - 1100, 0 - 1, 0, 1, 1074, 1075, 1100}
       \cup around \cup {0 - d : d \in around}

ConstructorInit ==
    /\ heap = << >>
    /\ kept = NoClone
    /\ DEFAULT_WORKING_PRECISION = INITIAL_WORKING_PRECISION
    /\ bimath = NoTesters
    /\ call = Idle

\* A precision above the maximum scale is passed with the number zero, whose
\* mantissa needs no shift.
ConstructorNext ==
    \/ \E num \in Numbers :
          \E p \in NumberPrecisions
                    \cup (IF IsZeroNumber(num) THEN {MAX_DIVEX + 1} ELSE {}) :
             CallFromNumber(num, p)
    \/ \E n \in MantissaRange, p \in PrecisionRange \cup {0 - 1} : CallFromBigInt(n, p)
    \/ \E n \in ToNumberMantissas, e \in ToNumberShifts, d \in ToNumberDivexes :
          CallToNumber(n, e, d)

ConstructorSpec == ConstructorInit /\ [][ConstructorNext]_vars

\* The conversions out of the library, of one BigDecimal the caller holds.
StringDivexRange == (0 - MaxNegDivex)..MaxStringDivex
StringMantissaRange == (0 - MaxStringMantissa)..MaxStringMantissa
StringValues == [bigint : StringMantissaRange, divex : StringDivexRange]

ConversionInit ==
    /\ heap \in [1..1 -> StringValues]
    /\ kept = NoClone
    /\ DEFAULT_WORKING_PRECISION = INITIAL_WORKING_PRECISION
    /\ bimath = NoTesters
    /\ call = Idle

ConversionNext ==
    \/ \E i \in Objects : CallToExactString(i)

ConversionSpec == ConversionInit /\ [][ConversionNext]_vars

\* Square roots of one BigDecimal, over more mantissas than Spec takes.
SqrtValues == [bigint : (0 - 1)..MaxSqrtMantissa, divex : DivexRange]

SqrtInit ==
    /\ heap \in [1..1 -> SqrtValues]
    /\ kept = NoClone
    /\ DEFAULT_WORKING_PRECISION = INITIAL_WORKING_PRECISION
    /\ bimath = NoTesters
    /\ call = Idle

SqrtNext ==
    \/ \E i \in Objects, k \in MantissaBitsRange : CallSqrt(i, k)

SqrtSpec == SqrtInit /\ [][SqrtNext]_vars

\* exp, after the default precision was set or not: of the integers
\* -MaxExpArgument..MaxExpArgument as FromBigInt(x, s) builds them at the
\* scales 0, 1, 5 and 23, and of two larger values of scale -2 (-84 and 104).
ExpScales == {0, 1, 5, INITIAL_WORKING_PRECISION}
ExpArguments ==
    {BD(x * (2 ^ s), s) : x \in (0 - MaxExpArgument)..MaxExpArgument, s \in ExpScales}
    \cup {BD(0 - 21, 0 - 2), BD(26, 0 - 2)}
ExpMantissaBits == {1, 2, 20}

ExpInit ==
    /\ heap = << >>
    /\ kept = NoClone
    /\ DEFAULT_WORKING_PRECISION = INITIAL_WORKING_PRECISION
    /\ bimath = NoTesters
    /\ call = Idle

ExpNext ==
    \/ \E p \in {0, 1} : CallSetGlobalPrecision(p)
    \/ \E x \in ExpArguments, k \in ExpMantissaBits : CallExp(x.bigint, x.divex, k)
    \/ Return

ExpSpec == ExpInit /\ [][ExpNext]_vars

\* bitLength_bisection called on its own, any number of times in any order,
\* on the bigints +-(2^e + d) at and around the testers 2^(32 * 2^k), between
\* two testers, and below the first one (e = 0 with d = -1 gives zero).
BitLengthExponents ==
    {0, 1, 31} \cup {32 * (2 ^ k) : k \in 0..MaxChunk} \cup {48 * (2 ^ k) : k \in 0..MaxChunk}

BitLengthArgument(negative, e, d) ==
    LET magnitude == BigAdd(BigShiftLeft(BigFromInt(ONE), e), BigFromInt(d))
    IN IF negative THEN BigNegate(magnitude) ELSE magnitude

CallBitLength(negative, e, d) ==
    LET x == BitLengthArgument(negative, e, d)
        r == bitLength_bisection_tables(bimath, x)
    IN /\ call.op = "idle"
       /\ call' = [op |-> "bitLength_bisection", i |-> 0, j |-> 0,
                   a |-> NoBD, b |-> NoBD, n |-> x, p |-> 0,
                   ret |-> Ok(r.result), ref |-> 0]
       /\ bimath' = r.bimath
       /\ UNCHANGED <<heap, kept, DEFAULT_WORKING_PRECISION>>

BitLengthInit ==
    /\ heap = << >>
    /\ kept = NoClone
    /\ DEFAULT_WORKING_PRECISION = INITIAL_WORKING_PRECISION
    /\ bimath = NoTesters
    /\ call = Idle

BitLengthNext ==
    \/ \E negative \in BOOLEAN, e \in BitLengthExponents, d \in {0 - 1, 0, 1} :
            CallBitLength(negative, e, d)
    \/ Return

BitLengthSpec == BitLengthInit /\ [][BitLengthNext]_vars

\* ------------------------------------------------------------------ claims

\* Arithmetic used to state the claims (exact, on integers).
Pos(x) == IF x > 0 THEN x ELSE 0

\* r = floor(num / den + 1/2) for den > 0: num / den rounded to the nearest
\* integer, ties toward +infinity.
IsHalfUp(r, num, den) == 2 * r * den <= 2 * num + den /\ 2 * num + den < 2 * (r + 1) * den

\* x.bigint / 2^x.divex = y.bigint / 2^y.divex.
ValueEq(x, y) ==
    x.bigint * (2 ^ Pos(y.divex - x.divex)) = y.bigint * (2 ^ Pos(x.divex - y.divex))

Returned == call.ret.status = "ok"
Result == call.ret.value

\* C1: each of add, subtract, multiply_fixed, divide_fixed and mod that
\* returns a result returns one whose scale is the scale of its first
\* argument, whatever the two scales are.
C1_ScalePreserved ==
    (call.op \in {"add", "subtract", "multiply_fixed", "divide_fixed", "mod"} /\ Returned)
        => Result.divex = call.a.divex

C1_Witness ==
    /\ call.op = "multiply_fixed"
    /\ Returned
    /\ call.a.divex < 0
    /\ call.b.divex > 0
    /\ Result.divex = call.a.divex
    /\ Result.bigint # 0

\* C2: where low-order bits are discarded (setExponent to a lower scale,
\* multiply_fixed with b.scale > 0, toBigInt with scale > 0) the new mantissa
\* is floor(exact * 2^target + 1/2); where none are discarded the value is
\* kept exactly.
C2_RoundHalfUp ==
    /\ call.op = "setExponent" =>
          LET old == call.a
              new == heap[call.i]
          IN /\ new.divex = call.p
             /\ IF call.p < old.divex
                THEN IsHalfUp(new.bigint, old.bigint, 2 ^ (old.divex - call.p))
                ELSE new.bigint = old.bigint * (2 ^ (call.p - old.divex))
    /\ (call.op = "multiply_fixed" /\ Returned) =>
          LET exact == call.a.bigint * call.b.bigint
          IN IF call.b.divex > 0
             THEN IsHalfUp(Result.bigint, exact, 2 ^ call.b.divex)
             ELSE Result.bigint = exact * (2 ^ (0 - call.b.divex))
    /\ (call.op = "toBigInt" /\ Returned) =>
          IF call.a.divex > 0
          THEN IsHalfUp(Result, call.a.bigint, 2 ^ call.a.divex)
          ELSE Result = call.a.bigint * (2 ^ (0 - call.a.divex))

\* -0.5 rescaled to an integer scale is 0 (the tie goes toward +infinity).
C2_Witness ==
    /\ call.op = "setExponent"
    /\ call.a = BD(0 - 1, 1)
    /\ call.p = 0
    /\ heap[call.i] = BD(0, 0)

\* C3: add(a, b) is, at a's scale, a plus b (b exactly when b.scale <=
\* a.scale, b rounded half-up to a's scale otherwise); 1.0 + 0.25 at scales 1
\* and 2 is 1.5, -1.0 + -0.25 is -1; and add(a, b) value-equals add(b, a) when
\* the scales are equal.
C3_Add ==
    (call.op = "add" /\ Returned) =>
        LET a == call.a
            b == call.b
            r == Result.bigint - a.bigint
        IN /\ Result.divex = a.divex
           /\ IF b.divex <= a.divex
              THEN r = b.bigint * (2 ^ (a.divex - b.divex))
              ELSE IsHalfUp(r, b.bigint, 2 ^ (b.divex - a.divex))
           /\ (a = BD(2, 1) /\ b = BD(1, 2)) => Result = BD(3, 1)
           /\ (a = BD(0 - 2, 1) /\ b = BD(0 - 1, 2)) => Result = BD(0 - 2, 1)
           /\ a.divex = b.divex =>
                 /\ add(b, a).status = "ok"
                 /\ ValueEq(Result, add(b, a).value)

C3_Witness ==
    /\ call.op = "add"
    /\ call.a = BD(0 - 2, 1)
    /\ call.b = BD(0 - 1, 2)
    /\ Result = BD(0 - 2, 1)

\* The sign of a - b, from the exact cross-multiplied mantissas.
ExactSign(a, b) ==
    LET x == a.bigint * (2 ^ Pos(b.divex - a.divex))
        y == b.bigint * (2 ^ Pos(a.divex - b.divex))
    IN IF x < y THEN 0 - 1 ELSE IF x > y THEN 1 ELSE 0

\* C4: compare(a, b) is the sign of the exact difference a - b whatever the
\* scales; areEqual(a, b) is true exactly when the values are equal;
\* compare(a, b) = -compare(b, a).
C4_Compare ==
    /\ call.op = "compare" =>
          /\ Result = ExactSign(call.a, call.b)
          /\ Result = 0 - compare(call.b, call.a)
    /\ call.op = "areEqual" =>
          /\ Result = ValueEq(call.a, call.b)
          /\ (call.a.bigint = 0 /\ call.b.bigint = 0) => Result
          /\ (call.a = BD(2, 1) /\ call.b = BD(4, 2)) => Result

\* Two values one unit apart at the finer scale do not compare equal.
C4_Witness ==
    /\ call.op = "areEqual"
    /\ call.a.divex - call.b.divex >= 2
    /\ call.a.bigint = call.b.bigint * (2 ^ (call.a.divex - call.b.divex)) + 1
    /\ Result = FALSE

\* C5: toBigInt(FromBigInt(n, s)) = n for every n and every s >= 0.
C5_RoundTrip ==
    (call.op = "FromBigInt" /\ call.p >= 0) =>
        /\ Returned
        /\ toBigInt(Result) = call.n

C5_Witness ==
    /\ call.op = "FromBigInt"
    /\ call.n < 0
    /\ call.p = MaxPrecision
    /\ Returned
    /\ Result.bigint = call.n * (2 ^ MaxPrecision)
    /\ toBigInt(Result) = call.n

\* C6: divide_fixed, divide_floating and mod throw a division-by-zero error
\* whenever the divisor's mantissa is zero (whatever its scale, and also for
\* 0 / 0), as does pow of a zero base to a negative exponent; no value is
\* returned.
C6_DivisionByZero ==
    /\ (call.op \in {"divide_fixed", "divide_floating", "mod"} /\ call.b.bigint = 0)
          => (call.ret.status = "DivisionByZero" /\ ~Returned)
    /\ (call.op = "pow" /\ call.a.bigint = 0 /\ call.p < 0)
          => (call.ret.status = "DivisionByZero" /\ ~Returned)

C6_Witness ==
    /\ call.op = "divide_floating"
    /\ call.a.bigint = 0
    /\ call.b.bigint = 0
    /\ call.b.divex # 0
    /\ call.ret.status = "DivisionByZero"

\* C7: when the exact quotient a / b is a value of a's scale, divide_fixed
\* returns exactly that quotient, for every workingPrecision >= 0 and every
\* combination of signs.
C7_ExactQuotient ==
    (call.op = "divide_fixed" /\ call.p >= 0 /\ Returned) =>
        LET a == call.a
            b == call.b
            bound == bimath_abs(a.bigint) * (2 ^ Pos(b.divex))
        IN \A q \in (0 - bound)..bound :
              q * b.bigint * (2 ^ Pos(0 - b.divex)) = a.bigint * (2 ^ Pos(b.divex))
                  => Result.bigint = q

\* -2.0 / 0.5 = -4.0 at scale 1, with guard bits.
C7_Witness ==
    /\ call.op = "divide_fixed"
    /\ call.p = MaxPrecision
    /\ call.a = BD(0 - 4, 1)
    /\ call.b = BD(1, 1)
    /\ Returned
    /\ Result = BD(0 - 8, 1)

\* r is the exact quotient a / b, scaled by 2^scale, rounded to the nearest
\* integer with ties toward +infinity.
IsQuotientHalfUp(r, a, b, scale) ==
    LET e == b.divex + scale - a.divex
        num == a.bigint * (2 ^ Pos(e))
        den == b.bigint * (2 ^ Pos(0 - e))
    IN IF den > 0 THEN IsHalfUp(r, num, den) ELSE IsHalfUp(r, 0 - num, 0 - den)

\* C8: divide_fixed(a, b, workingPrecision >= 1) is the value of a's scale
\* nearest to the exact quotient (ties toward +infinity), and
\* divide_floating(a, b, k) is the exact quotient rounded to nearest at the
\* scale of its result, for positive and negative quotients alike.
C8_CorrectlyRounded ==
    /\ (call.op = "divide_fixed" /\ call.p >= 1 /\ Returned) =>
          IsQuotientHalfUp(Result.bigint, call.a, call.b, call.a.divex)
    /\ (call.op = "divide_floating" /\ Returned) =>
          IsQuotientHalfUp(Result.bigint, call.a, call.b, Result.divex)

Sign(x) == IF x < 0 THEN 0 - 1 ELSE IF x > 0 THEN 1 ELSE 0

\* C9: for every a and every b with a nonzero mantissa, mod(a, b) returns a
\* remainder r at a's scale that is zero or has the sign of a, with |r| < |b|;
\* when b.scale <= a.scale, r = a - b * trunc(a / b).
C9_ModRemainder ==
    (call.op = "mod" /\ call.b.bigint # 0) =>
        /\ Returned
        /\ LET a == call.a
               b == call.b
               r == Result
               divisor == b.bigint * (2 ^ Pos(a.divex - b.divex))
           IN /\ r.divex = a.divex
              /\ r.bigint = 0 \/ Sign(r.bigint) = Sign(a.bigint)
              /\ bimath_abs(r.bigint) * (2 ^ Pos(b.divex - a.divex))
                    < bimath_abs(divisor)
              /\ b.divex <= a.divex =>
                    \E q \in (0 - bimath_abs(a.bigint))..bimath_abs(a.bigint) :
                        a.bigint = q * divisor + r.bigint

C11_ScaleBounded ==
    /\ (call.op \in {"FromNumber", "FromBigInt"} /\ (call.p < 0 \/ call.p > MAX_DIVEX))
          => ~Returned
    /\ (call.op = "FromNumber" /\ ~isFinite(call.n)) => ~Returned
    /\ (call.op \in {"FromNumber", "FromBigInt"} /\ Returned)
          => (Result.divex >= 0 /\ Result.divex <= MAX_DIVEX)

\* The exact value of a finite number, as ExactSignificand / 2^ExactDivex.
ExactSignificand(num) ==
    LET m == IF num.exponent >= 1
             THEN BigAdd(BigShiftLeft(BigFromInt(1), 52), num.mantissa)
             ELSE num.mantissa
    IN IF num.sign = 1 THEN BigNegate(m) ELSE m

ExactDivex(num) == IF num.exponent >= 1 THEN 1075 - num.exponent ELSE 1074

\* r = floor(x / 2^d + 1/2), which for d <= 0 is r = x * 2^(-d) exactly.
BigIsHalfUp(r, x, d) ==
    IF d <= 0
    THEN /\ MagLowBitsZero(r.mag, 0 - d)
         /\ BigShiftRight(r, 0 - d) = x
    ELSE LET mid == BigAdd(BigShiftLeft(x, 1), BigShiftLeft(BigFromInt(1), d))
         IN /\ BigCompare(BigShiftLeft(r, d + 1), mid) <= 0
            /\ BigCompare(mid, BigShiftLeft(BigAdd(r, BigFromInt(1)), d + 1)) < 0

\* C12: for every finite double (sign, exponent e in 0..2046, mantissa f) and
\* every scale p >= 0, FromNumber returns scale p and the mantissa
\* floor(V * 2^p + 1/2), V the exact value of the double: +/-(2^52 + f) *
\* 2^(e - 1075) for e >= 1 and +/-f * 2^(-1074) for e = 0.
C12_FromNumberExact ==
    (call.op = "FromNumber" /\ call.n.exponent <= 2046 /\ call.p >= 0)
        => /\ Returned
           /\ Result.divex = call.p
           /\ BigIsHalfUp(Result.bigint, ExactSignificand(call.n),
                          ExactDivex(call.n) - call.p)

\* -1.5 at scale 0 is the tie that rounds up to -1.
C12_Witness ==
    /\ call.op = "FromNumber"
    /\ call.n = Double(1, 1023, BigShiftLeft(BigFromInt(1), 51))
    /\ call.p = 0
    /\ Returned
    /\ Result = BD(BigFromInt(0 - 1), 0)

\* C13: the default precision is 23 initially; SetGlobalPrecision(p) with
\* p >= 0 makes p the default and leaves every existing BigDecimal as it is,
\* with p < 0 it fails and leaves the default unchanged; no other call changes
\* the default; FromBigInt(n) and FromNumber(x) called without a scale return
\* the default scale (mantissa n * 2^p), fixPrecision rescales its argument to
\* it, and hasDefaultPrecision(v) is true iff v's scale is the default.
C13_GlobalPrecision ==
    /\ DEFAULT_WORKING_PRECISION = 23
    /\ [][/\ (call'.op = "SetGlobalPrecision" /\ call'.p >= 0) =>
                /\ call'.ret.status = "ok"
                /\ DEFAULT_WORKING_PRECISION' = call'.p
                /\ heap' = heap
          /\ (call'.op = "SetGlobalPrecision" /\ call'.p < 0) =>
                /\ call'.ret.status # "ok"
                /\ DEFAULT_WORKING_PRECISION' = DEFAULT_WORKING_PRECISION
                /\ heap' = heap
          /\ call'.op # "SetGlobalPrecision" =>
                DEFAULT_WORKING_PRECISION' = DEFAULT_WORKING_PRECISION
          /\ call'.op = "FromBigInt_default" =>
                /\ call'.ret.status = "ok"
                /\ call'.ret.value.divex = DEFAULT_WORKING_PRECISION
                /\ call'.ret.value.bigint = call'.n * (2 ^ DEFAULT_WORKING_PRECISION)
          /\ call'.op = "FromNumber_default" =>
                /\ call'.ret.status = "ok"
                /\ call'.ret.value.divex = DEFAULT_WORKING_PRECISION
          /\ call'.op = "fixPrecision" =>
                heap'[call'.i].divex = DEFAULT_WORKING_PRECISION
          /\ call'.op = "hasDefaultPrecision" =>
                (call'.ret.value <=> (heap[call'.i].divex = DEFAULT_WORKING_PRECISION))
         ]_vars

\* After SetGlobalPrecision(1), an object of scale 1 has the default precision.
C13_Witness ==
    /\ call.op = "hasDefaultPrecision"
    /\ DEFAULT_WORKING_PRECISION = 1
    /\ call.a.divex = 1
    /\ call.ret.value = TRUE

\* C14: a calculation called without a precision uses the default precision
\* of the moment: divide_fixed returns what it returns for workingPrecision =
\* the default, and multiply_floating and divide_floating return what they
\* return for mantissaBits = the default.
C14_DefaultGovernsAll ==
    /\ call.op = "divide_fixed_default" =>
          call.ret = divide_fixed(call.a, call.b, DEFAULT_WORKING_PRECISION)
    /\ call.op = "multiply_floating_default" =>
          call.ret = multiply_floating(call.a, call.b, DEFAULT_WORKING_PRECISION)
    /\ call.op = "divide_floating_default" =>
          call.ret = divide_floating(call.a, call.b, DEFAULT_WORKING_PRECISION)

\* C15: for operands with nonzero mantissa and mantissaBits >= 1, the result
\* of multiply_floating and of divide_floating, and the result of sqrt of a
\* positive value, has a mantissa of exactly mantissaBits bits.
C15_MantissaBitLength ==
    /\ (/\ call.op \in {"multiply_floating", "divide_floating"}
        /\ call.a.bigint # 0 /\ call.b.bigint # 0 /\ call.p >= 1 /\ Returned)
          => bitLength_bisection(Result.bigint) = call.p
    /\ (call.op = "sqrt" /\ call.a.bigint > 0 /\ call.p >= 1 /\ Returned)
          => bitLength_bisection(Result.bigint) = call.p

\* C16: for every base with nonzero mantissa, every exponent for which pow
\* returns and every mantissaBits >= 1, the mantissa of the result has at most
\* mantissaBits bits.
C16_PowMantissaBits ==
    (call.op = "pow" /\ call.a.bigint # 0 /\ call.n >= 1 /\ Returned)
        => bitLength_bisection(Result.bigint) <= call.n

\* C17: normalizing a second time does not change the value: for the result r
\* of multiply_floating(a, b, k), k >= 1, normalize(r, k) value-equals r, and
\* so does multiply_floating(r, FromBigInt(1, k), k), also when rounding
\* carried r's mantissa up to a power of two.
C17_NormalizeIdempotent ==
    (call.op = "multiply_floating" /\ call.p >= 1 /\ Returned)
        => /\ ValueEq(normalize(Result, call.p), Result)
           /\ ValueEq(multiply_floating(Result, FromBigInt(ONE, call.p).value,
                                        call.p).value, Result)

\* The rounding of a product carried: its mantissa is 2^k, of k + 1 bits.
C17_Witness ==
    /\ call.op = "multiply_floating"
    /\ Returned
    /\ Result.bigint = 2 ^ call.p
    /\ call.a.bigint * call.b.bigint = 3

\* C18: for mantissaBits >= 1 and operands with nonzero mantissas,
\* divide_floating and multiply_floating return a nonzero mantissa with the
\* sign of the exact result, however many more bits the divisor has than the
\* dividend.
C18_NeverZero ==
    (/\ call.op \in {"divide_floating", "multiply_floating"}
     /\ call.a.bigint # 0 /\ call.b.bigint # 0 /\ call.p >= 1)
        => /\ Returned
           /\ Result.bigint # 0
           /\ Sign(Result.bigint) = Sign(call.a.bigint) * Sign(call.b.bigint)

\* A one-bit dividend, a divisor of MaxMantissaBits bits, one mantissa bit.
C18_Witness ==
    /\ call.op = "divide_floating"
    /\ bimath_abs(call.a.bigint) = 1
    /\ bitLength_bisection(call.b.bigint) = MaxMantissaBits
    /\ call.p = 1
    /\ Returned
    /\ Result.bigint # 0

\* The unit of the integers in the mantissa of a value of scale d: 2^d for a
\* positive scale, 1 otherwise (every mantissa is then an integer value).
IntegerUnit(d) == 2 ^ Pos(d)

C20_RoundEveryScale ==
    call.op = "round"
        => /\ call.ret.status = "ok"
           /\ call.ret.status = "ok"
              => LET unit == IntegerUnit(call.a.divex)
                 IN /\ Result.divex = call.a.divex
                    /\ Result.bigint % unit = 0
                    /\ IsHalfUp(Result.bigint \div unit, call.a.bigint, unit)

\* C20, where round returns: the result is floor(x + 1/2) at the scale of x.
C20_RoundWhereReturned ==
    (call.op = "round" /\ Returned)
        => LET unit == IntegerUnit(call.a.divex)
           IN /\ Result.divex = call.a.divex
              /\ Result.bigint % unit = 0
              /\ IsHalfUp(Result.bigint \div unit, call.a.bigint, unit)

\* round of a negative tie (-1.5 -> -1).
C20_Witness ==
    /\ call.op = "round"
    /\ Returned
    /\ call.a = BD(0 - 3, 1)
    /\ Result = BD(0 - 2, 1)

\* Reading a string as a decimal number.
DigitChars == {Digit(d) : d \in 0..9}
DigitValue(c) == CHOOSE d \in 0..9 : Digit(d) = c
RECURSIVE DigitsValue(_)
DigitsValue(str) ==
    IF Len(str) = 0 THEN 0
    ELSE 10 * DigitsValue(SubSeq(str, 1, Len(str) - 1)) + DigitValue(str[Len(str)])

\* The string without its leading '-', and the positions of its '.'.
Unsigned(str) == IF Len(str) > 0 /\ str[1] = "-" THEN Tail(str) ELSE str
DotsOf(str) == {k \in 1..Len(str) : str[k] = "."}

\* optional '-', digits, optionally '.' and digits; no trailing zero after
\* the '.', no bare '.', never "-0".
IsDecimalString(str) ==
    LET body == Unsigned(str)
        dots == DotsOf(body)
    IN /\ Len(body) > 0
       /\ \A k \in 1..Len(body) : body[k] \in DigitChars \cup {"."}
       /\ Cardinality(dots) <= 1
       /\ \A k \in dots : /\ 1 < k /\ k < Len(body)
                           /\ body[Len(body)] # "0"
       /\ str # <<"-", "0">>

\* str reads as bigint / 2^divex exactly.
ReadsAs(str, bd) ==
    LET body == Unsigned(str)
        dots == DotsOf(body)
        dot == IF dots = {} THEN Len(body) + 1 ELSE CHOOSE k \in dots : TRUE
        integerDigits == SubSeq(body, 1, dot - 1)
        fractionDigits == SubSeq(body, dot + 1, Len(body))
        scale10 == 10 ^ Len(fractionDigits)
        magnitude == DigitsValue(integerDigits) * scale10 + DigitsValue(fractionDigits)
        signed == IF Len(str) > 0 /\ str[1] = "-" THEN 0 - magnitude ELSE magnitude
    IN signed * (2 ^ Pos(bd.divex)) = bd.bigint * (2 ^ Pos(0 - bd.divex)) * scale10

\* C21: toExactString returns an optional '-', digits and optionally '.'
\* followed by digits, without a trailing zero after the '.', a bare '.' or
\* "-0"; the string reads as mantissa / 2^scale exactly, and a zero mantissa
\* gives "0" whatever the scale.
C21_ExactString ==
    call.op = "toExactString"
        => /\ Returned
           /\ IsDecimalString(Result)
           /\ ReadsAs(Result, call.a)
           /\ call.a.bigint = 0 => Result = <<"0">>
           /\ call.a = BD(3, 2) => Result = <<"0", ".", "7", "5">>
           /\ call.a = BD(1, 3) => Result = <<"0", ".", "1", "2", "5">>

\* A negative fraction whose digits end in a zero before trimming:
\* -2/16 = -0.125.
C21_Witness ==
    /\ call.op = "toExactString"
    /\ Returned
    /\ call.a = BD(0 - 2, 4)
    /\ Result = <<"-", "0", ".", "1", "2", "5">>

\* MAX_VALUE = 2^1024 - 2^971, the largest double, as a magnitude.
MaxValueMag == MagSub(MagShiftLeft(<<1>>, 1024), MagShiftLeft(<<1>>, 971))

\* |bd| > MAX_VALUE and |bd| < 2^-1074 (the smallest positive double).
BeyondDoubleRange(bd) ==
    MagCompare(MagShiftLeft(bd.bigint.mag, Pos(0 - bd.divex)),
               MagShiftLeft(MaxValueMag, Pos(bd.divex))) > 0
BelowSmallestDouble(bd) ==
    MagCompare(MagShiftLeft(bd.bigint.mag, 1074 + Pos(0 - bd.divex)),
               MagShiftLeft(<<1>>, Pos(bd.divex))) < 0

\* The finite nonzero double num has the sign of bd and lies within one unit
\* in its last place of bd: | |bd| - |num| | <= 2^(E - 1075), where
\* |num| = significand * 2^(E - 1075) and E is the exponent field (1 for a
\* subnormal number); both sides are scaled by 2^(1075 + max(divex, 0)).
ApproximatedBy(bd, num) ==
    LET E == IF num.exponent = 0 THEN 1 ELSE num.exponent
        D == Pos(bd.divex)
        significand == IF num.exponent = 0 THEN num.mantissa.mag
                       ELSE MagAdd(MagShiftLeft(<<1>>, 52), num.mantissa.mag)
        V == MagShiftLeft(bd.bigint.mag, 1075 + D - bd.divex)
        R == MagShiftLeft(significand, E + D)
        difference == IF MagCompare(V, R) >= 0 THEN MagSub(V, R) ELSE MagSub(R, V)
    IN /\ (num.sign = 1) = bd.bigint.neg
       /\ MagCompare(difference, MagShiftLeft(<<1>>, E + D)) <= 0

\* C22: toNumber returns an infinity only for a magnitude beyond the double
\* range and 0 only for a value that is zero or below the smallest positive
\* double; every value within the range gives a finite number approximating
\* it, also with a scale above 1023 or a mantissa of more than 1024 bits.
C22_ToNumberRange ==
    call.op = "toNumber"
        => /\ Returned
           /\ ~isFinite(Result) => BeyondDoubleRange(call.a)
           /\ IsZeroNumber(Result)
                 => (call.a.bigint.mag = << >> \/ BelowSmallestDouble(call.a))
           /\ (call.a.bigint.mag # << >> /\ ~BeyondDoubleRange(call.a)
                                         /\ ~BelowSmallestDouble(call.a))
                 => /\ isFinite(Result)
                    /\ ~IsZeroNumber(Result)
                    /\ ApproximatedBy(call.a, Result)

\* C22 for the BigDecimals with a scale in -1023..1023 and a mantissa that
\* converts to a finite number.
C22_ToNumberModerate ==
    (/\ call.op = "toNumber"
     /\ call.a.divex <= MAX_DIVEX_BEFORE_INFINITY
     /\ call.a.divex >= 0 - MAX_DIVEX_BEFORE_INFINITY
     /\ isFinite(NumberOfBigInt(call.a.bigint)))
        => /\ Returned
           /\ ~isFinite(Result) => BeyondDoubleRange(call.a)
           /\ IsZeroNumber(Result)
                 => (call.a.bigint.mag = << >> \/ BelowSmallestDouble(call.a))
           /\ (call.a.bigint.mag # << >> /\ ~BeyondDoubleRange(call.a)
                                         /\ ~BelowSmallestDouble(call.a))
                 => /\ isFinite(Result)
                    /\ ~IsZeroNumber(Result)
                    /\ ApproximatedBy(call.a, Result)

\* C23: sqrt fails only for a negative input; a zero mantissa returns zero,
\* and for every positive value and every mantissaBits >= 1 the iteration
\* converges within MAX_ITERATIONS, so the convergence failure is not raised.
C23_SqrtConverges ==
    call.op = "sqrt"
        => /\ call.a.bigint < 0 <=> call.ret.status # "ok"
           /\ call.a.bigint < 0 => call.ret.status = "NegativeSqrt"
           /\ call.a.bigint = 0 => (Returned /\ Result.bigint = 0)
           /\ (call.a.bigint > 0 /\ call.p >= 1) => call.ret.status # "NoConvergence"

\* (r - u)^2 <= v <= (r + u)^2 for u = 2^(-r.divex), one unit in the last
\* place of r; both sides scaled to integers.
WithinOneUnitOfSqrt(r, v) ==
    LET scaleR == 2 ^ (Pos(0 - 2 * r.divex) + Pos(v.divex))
        scaleV == 2 ^ (Pos(2 * r.divex) + Pos(0 - v.divex))
    IN /\ (r.bigint - 1) * (r.bigint - 1) * scaleR <= v.bigint * scaleV
       /\ v.bigint * scaleV <= (r.bigint + 1) * (r.bigint + 1) * scaleR

\* C24: for every v > 0 and every mantissaBits >= 2, sqrt(v, mantissaBits)
\* returns r with (r - u)^2 <= v <= (r + u)^2, u one unit in the last place
\* of r.
C24_SqrtAccurate ==
    (call.op = "sqrt" /\ call.a.bigint > 0 /\ call.p >= 2)
        => /\ Returned
           /\ Returned => WithinOneUnitOfSqrt(Result, call.a)

\* C24, for the square roots that are returned.
C24_SqrtAccurateWhereReturned ==
    (call.op = "sqrt" /\ call.a.bigint > 0 /\ call.p >= 2 /\ Returned)
        => WithinOneUnitOfSqrt(Result, call.a)

\* x < y for BigDecimals x and y holding bigints beyond the model's integers.
BigLess(x, y) ==
    BigCompare(BigShiftLeft(x.bigint, Pos(y.divex - x.divex)),
               BigShiftLeft(y.bigint, Pos(x.divex - y.divex))) < 0

\* e^(x - 0.01) rounded down and e^(x + 0.01) rounded up, to 25 bits.
ExpLowerBound ==
    [x \in (0 - 12)..12 |->
        <<BD(26753653, 42), BD(18180992, 40), BD(24710530, 39),
          BD(16792546, 37), BD(22823436, 36), BD(31020266, 35),
          BD(21080456, 33), BD(28651311, 32), BD(19470584, 30),
          BD(26463268, 29), BD(17983655, 27), BD(24442321, 26),
          BD(33220559, 25), BD(22575711, 23), BD(30683572, 22),
          BD(20851649, 20), BD(28340329, 19), BD(19259250, 17),
          BD(26176035, 16), BD(17788460, 14), BD(24177024, 13),
          BD(32859983, 12), BD(22330673, 10), BD(30350532, 9),
          BD(20625325, 7)>>[x + 13]]

ExpUpperBound ==
    [x \in (0 - 12)..12 |->
        <<BD(27294113, 42), BD(18548273, 40), BD(25209717, 39),
          BD(17131779, 37), BD(23284501, 36), BD(31646918, 35),
          BD(21506311, 33), BD(29230107, 32), BD(19863917, 30),
          BD(26997863, 29), BD(18346950, 27), BD(24936090, 26),
          BD(16945830, 24), BD(23031771, 23), BD(31303422, 22),
          BD(21272881, 20), BD(28912843, 19), BD(19648314, 17),
          BD(26704827, 16), BD(18147812, 14), BD(24665433, 13),
          BD(33523800, 12), BD(22781784, 10), BD(30963655, 9),
          BD(21041985, 7)>>[x + 13]]

\* The integer an argument FromBigInt(x, s) of exp stands for.
ExpIntegerArgument(bd) == BigToInt(BigShiftRight(bd.bigint, bd.divex))

C25_ExpAccurateAtDefaultScale ==
    (/\ call.op = "exp"
     /\ call.n = INITIAL_WORKING_PRECISION
     /\ call.a.divex = INITIAL_WORKING_PRECISION
     /\ call.p >= 20)
        => LET x == ExpIntegerArgument(call.a)
               lower == BD(BigFromInt(ExpLowerBound[x].bigint), ExpLowerBound[x].divex)
               upper == BD(BigFromInt(ExpUpperBound[x].bigint), ExpUpperBound[x].divex)
           IN /\ Returned
              /\ BigLess(lower, Result)
              /\ BigLess(Result, upper)
              /\ x = 0 => BigAreEqual(Result, BigFromBigInt(BigFromInt(1), 0))

\* The number of binary digits of |x|: the n with 2^(n-1) <= |x| < 2^n, and 0
\* for zero.
NaiveBitLength(x) ==
    IF x.mag = << >> THEN 0
    ELSE CHOOSE n \in 1..(48 * (2 ^ MaxChunk) + 1) :
            /\ MagCompare(x.mag, MagShiftLeft(<<1>>, n)) < 0
            /\ MagCompare(x.mag, MagShiftLeft(<<1>>, n - 1)) >= 0

\* Entry k of the tables (from 0) holds the exponent 32 * 2^k, as a number
\* and as a bigint, and the tester 2^(32 * 2^k); the tables have testersN
\* entries each.
TestersInOrder(t) ==
    /\ Len(t.testersCoeff) = t.testersN
    /\ Len(t.testersBigCoeff) = t.testersN
    /\ Len(t.testers) = t.testersN
    /\ \A k \in 0..(t.testersN - 1) :
          /\ t.testersCoeff[k + 1] = 32 * (2 ^ k)
          /\ t.testersBigCoeff[k + 1] = BigFromInt(32 * (2 ^ k))
          /\ t.testers[k + 1] = BigShiftLeft(BigFromInt(1), 32 * (2 ^ k))

\* The tables t are the first entries of the tables u.
TestersExtendedBy(t, u) ==
    /\ t.testersN <= u.testersN
    /\ t.testersCoeff = SubSeq(u.testersCoeff, 1, t.testersN)
    /\ t.testersBigCoeff = SubSeq(u.testersBigCoeff, 1, t.testersN)
    /\ t.testers = SubSeq(u.testers, 1, t.testersN)

\* C26: bitLength_bisection(n) is the number of binary digits of |n| (0 for
\* zero), at and around every tester 2^(32 * 2^k) as elsewhere; it is what a
\* first call with empty tables returns, however far earlier calls have
\* extended the tables; the tables hold exponent 32 * 2^k and tester
\* 2^(32 * 2^k) at entry k, and a step only appends to them.
C26_BitLength ==
    /\ [](/\ TestersInOrder(bimath)
          /\ call.op = "bitLength_bisection"
                => /\ call.ret.value = NaiveBitLength(call.n)
                   /\ call.ret.value = bitLength_bisection_tables(NoTesters, call.n).result)
    /\ [][TestersExtendedBy(bimath, bimath')]_vars

\* 2^64 + 1 measured (65 bits) after an earlier call has extended the tables
\* past the last tester this call needs.
C26_Witness ==
    /\ call.op = "bitLength_bisection"
    /\ call.n = BitLengthArgument(FALSE, 64, 1)
    /\ call.ret.value = 65
    /\ bimath.testersN = MaxChunk + 2

\* C27: when a or b has a zero mantissa, multiply_floating(a, b, mantissaBits)
\* returns a zero mantissa with the scale a.scale + b.scale, for every
\* mantissaBits.
C27_ZeroKeepsScale ==
    (/\ call.op \in {"multiply_floating", "multiply_floating_default"}
     /\ call.a.bigint = ZERO \/ call.b.bigint = ZERO)
        => /\ Returned
           /\ Result.bigint = ZERO
           /\ Result.divex = call.a.divex + call.b.divex

\* What the code does for a zero product: the mantissa stays zero and the
\* scale grows by mantissaBits.
C27_ZeroScaleGrows ==
    (/\ call.op \in {"multiply_floating", "multiply_floating_default"}
     /\ call.a.bigint = ZERO \/ call.b.bigint = ZERO)
        => /\ Returned
           /\ Result.bigint = ZERO
           /\ Result.divex = call.a.divex + call.b.divex + call.p

\* C28: exp never fails, for every argument and every mantissaBits >= 1.
C28_ExpNeverFails ==
    (call.op = "exp" /\ call.p >= 1) => call.ret.status = "ok"

\* C29: subtract(a, b) has the value of add(a, negate(b)) for all a and b,
\* whatever their scales, and the value of negate(subtract(b, a)) when a and b
\* have the same scale.
C29_SubtractIsAddNegated ==
    call.op = "subtract"
        => /\ Returned
           /\ ValueEq(Result, add(call.a, negate(call.b).value).value)
           /\ call.a.divex = call.b.divex
                => ValueEq(Result, negate(subtract(call.b, call.a).value).value)

\* b falls halfway between two values of the scale of a.
HalfwayAtScaleOf(a, b) ==
    /\ b.divex > a.divex
    /\ b.bigint % (2 ^ (b.divex - a.divex)) = 2 ^ (b.divex - a.divex - 1)

\* C29 where b is not halfway between two values of the scale of a; where it
\* is, subtract(a, b) is one unit of that scale below add(a, negate(b)).
C29_SubtractExceptHalfway ==
    call.op = "subtract"
        => LET added == add(call.a, negate(call.b).value).value
           IN /\ Returned
              /\ Result.divex = added.divex
              /\ Result.bigint = IF HalfwayAtScaleOf(call.a, call.b)
                                 THEN added.bigint - 1 ELSE added.bigint
              /\ call.a.divex = call.b.divex
                   => ValueEq(Result, negate(subtract(call.b, call.a).value).value)

\* C30: with mantissaBits passed, exp returns the same mantissa and scale
\* whatever value was last given to SetGlobalPrecision (the result under the
\* initial default).
C30_ExplicitPrecisionDeterministic ==
    call.op = "exp"
        => LET initially == exp(call.a, call.p, INITIAL_WORKING_PRECISION)
           IN /\ call.ret.status = initially.status
              /\ call.ret.status = "ok" => call.ret.value = initially.value

====
